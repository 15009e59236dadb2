--------------------------- MODULE ResolutionProofs ---------------------------
(***************************************************************************)
(* What is resolved of a document is what is written in it, the walk over  *)
(* the types used searches the graph of its fragments, and the module      *)
(* generated defines what it names, whatever the schema and the documents: *)
(* the theorems of ResponseTypes.                                          *)
(*                                                                         *)
(* The selections are numbered as the calls meet the items, and put in     *)
(* their parents' sets as the calls return.  The invariant says, of every  *)
(* parent, how its set and what the call for it has not met yet make up    *)
(* what is written there.                                                  *)
(***************************************************************************)
EXTENDS ResponseTypes, NumberFacts, SequenceTheorems, TLAPS

IsSequence(s) == s \in Seq({s[i] : i \in DOMAIN s})

Kinds == {"Typename", "Field", "InlineFragment", "FragmentSpread"}
Ids(q) == 1..Len(q.selections)
Roots(q) ==
  {<<"Fragment", i>> : i \in 1..Len(q.fragments)} \cup {<<"Operation", i>> : i \in 1..Len(q.operations)}
Inner(q) == {<<q.selections[id][1], id>> : id \in Ids(q)}

------------------------------------------------------------------------------
(* A query under construction: q, the calls fr, the histories it and mf, and *)
(* w, what is written for every parent of the document as far as it is read. *)

\* The lists are as long as each other, and every parent has a set.
Recorded(q, it, mf, w) ==
  /\ q = [fragments |-> q.fragments, operations |-> q.operations,
          selections |-> q.selections, parents |-> q.parents, sets |-> q.sets]
  /\ IsSequence(q.fragments) /\ IsSequence(q.operations)
  /\ IsSequence(q.selections) /\ IsSequence(q.parents)
  /\ IsSequence(it) /\ IsSequence(mf)
  /\ Len(q.parents) = Len(q.selections)
  /\ Len(it) = Len(q.selections) /\ Len(mf) = Len(q.selections)
  /\ \A id \in Ids(q) : it[id] \in Items /\ q.selections[id][1] \in Kinds
  /\ q.sets \in [Roots(q) \cup Inner(q) -> Seq(Nat)]
  /\ w \in [Roots(q) \cup Inner(q) -> Seq(Items)]

\* The parent of a selection is a root or a selection made before, for the same root.
Rooted(q, mf) ==
  \A id \in Ids(q) :
    \/ q.parents[id] \in Roots(q) /\ mf[id] = q.parents[id]
    \/ /\ q.parents[id] \in Inner(q) /\ q.parents[id][2] < id
       /\ mf[id] = mf[q.parents[id][2]]

\* A selection is in its parent's set, once and nowhere else, or its call is under way.
Placed(q, fr) ==
  /\ \A p \in Roots(q) \cup Inner(q) : \A i \in 1..Len(q.sets[p]) :
       /\ q.sets[p][i] \in Ids(q) /\ q.parents[q.sets[p][i]] = p
       /\ \A j \in 2..Len(fr) : fr[j].parent[2] # q.sets[p][i]
       /\ \A k \in 1..Len(q.sets[p]) : q.sets[p][k] = q.sets[p][i] => k = i
  /\ \A id \in Ids(q) :
       \/ \E i \in 1..Len(q.sets[q.parents[id]]) : q.sets[q.parents[id]][i] = id
       \/ \E j \in 2..Len(fr) : fr[j].parent[2] = id

\* Every call under way is for another parent, the first for a root, the others for
\* the selection the call before them has met last.
Stacked(q, fr, it, mf) ==
  /\ IsSequence(fr)
  /\ \A j \in 1..Len(fr) :
       fr[j] \in [parent : Roots(q) \cup Inner(q), on : {fr[j].on}, items : Seq(Items), met : Nat]
  /\ fr # <<>> => fr[1].parent \in Roots(q)
  /\ \A j \in 2..Len(fr) :
       LET id == fr[j].parent[2] IN
       /\ fr[j].parent \in Inner(q)
       /\ q.parents[id] = fr[j - 1].parent
       /\ fr[j - 1].met > 0 /\ it[id] = fr[j - 1].items[fr[j - 1].met]
       /\ mf[id] = fr[1].parent
  /\ \A j, k \in 1..Len(fr) : fr[j].parent = fr[k].parent => j = k

\* A set has the first of what is written for the parent; all of it, when no call for
\* the parent is under way, and otherwise all but what the call has not met and the
\* selection whose own call is under way.
Filled(q, fr, it, w) ==
  /\ \A p \in Roots(q) \cup Inner(q) :
       /\ Len(q.sets[p]) <= Len(w[p])
       /\ \A i \in 1..Len(q.sets[p]) : it[q.sets[p][i]] = w[p][i]
       /\ (\A j \in 1..Len(fr) : fr[j].parent # p) => Len(q.sets[p]) = Len(w[p])
  /\ \A j \in 1..Len(fr) :
       LET p == fr[j].parent IN
       /\ fr[j].met <= Len(fr[j].items)
       /\ Len(q.sets[p]) + (IF j < Len(fr) THEN 1 ELSE 0) + Len(fr[j].items) - fr[j].met
            = Len(w[p])
       /\ \A m \in 1..Len(fr[j].items) :
            fr[j].items[m] = w[p][Len(w[p]) - Len(fr[j].items) + m]

Building(q, fr, it, mf, w) ==
  /\ Recorded(q, it, mf, w)
  /\ Rooted(q, mf)
  /\ Placed(q, fr)
  /\ Stacked(q, fr, it, mf)
  /\ Filled(q, fr, it, w)

------------------------------------------------------------------------------
(* The resolution.                                                           *)

\* What is written for a parent in the definitions met: the one at hand is among
\* them for the parent its call is for.
Met(p) == IF frames # <<>> /\ frames[1].parent = p THEN at ELSE at - 1
RootWant(kind, named, i, n) ==
  IF FirstOfItsName(named, i) THEN ItemsUnder(kind, named[i].name)[n] ELSE <<>>
Want(p) ==
  CASE p[1] = "Fragment" -> RootWant("Fragment", query.fragments, p[2], Met(p))
    [] p[1] = "Operation" -> RootWant("Operation", query.operations, p[2], Met(p))
    [] OTHER -> ItemsOf(p)
Wants == [p \in Roots(query) \cup Inner(query) |-> Want(p)]

\* The first of the calls under way resolves the definition at hand for the first of its
\* name, the others what a field or an inline fragment has inside, on its type.
Defining ==
  LET d == document[at]
      p == frames[1].parent
      named == IF d[1] = "Fragment" THEN query.fragments ELSE query.operations
  IN  /\ at <= Len(document)
      /\ p[1] = d[1] /\ p[2] \in Found(named, NameOf(d))
      /\ frames[1].items = Body(d).selection_set
Inside(call) ==
  call.parent[1] \in {"Field", "InlineFragment"} /\ call.on = TypeInside(call.parent)
Calling ==
  /\ frames # <<>> => Defining
  /\ \A j \in 2..Len(frames) : Inside(frames[j])

Made == \A id \in DOMAIN query.selections : MadeOf(id, item_of[id])

SpreadsKnown ==
  \A id \in DOMAIN query.selections :
    Node(id)[1] = "FragmentSpread" => Node(id)[2] \in DOMAIN query.fragments

Working ==
  Building(query, frames, item_of, made_for, Wants) /\ Calling /\ Made /\ SpreadsKnown

Ended == {"typenames", "conditions", "overflow", "resolved"}

NothingSelected ==
  /\ query = [fragments |-> query.fragments, operations |-> query.operations,
              selections |-> <<>>, parents |-> <<>>, sets |-> [p \in Roots(query) |-> <<>>]]
  /\ IsSequence(query.fragments) /\ IsSequence(query.operations)
  /\ frames = <<>> /\ item_of = <<>> /\ made_for = <<>>

ResolutionInv ==
  /\ document \in Written
  /\ at \in 1..Len(document) + 1
  /\ phase \in {"roots", "selections", "error", "panic"} \cup Ended
  /\ phase = "roots" => NothingSelected
  /\ phase \in {"selections"} \cup Ended => Working
  /\ phase \in Ended => frames = <<>> /\ at = Len(document) + 1

------------------------------------------------------------------------------
(* Sequences of whatever they hold.                                          *)

LEMMA SequenceIs ==
    ASSUME NEW s, IsSequence(s)
    PROVE  Len(s) \in Nat /\ DOMAIN s = 1..Len(s) /\ (s # <<>> <=> Len(s) > 0)
  BY DEF IsSequence

LEMMA SequenceOf ==
    ASSUME NEW S, NEW s \in Seq(S)
    PROVE  IsSequence(s)
  BY DEF IsSequence

LEMMA AppendIs ==
    ASSUME NEW s, IsSequence(s), NEW e
    PROVE  /\ IsSequence(Append(s, e))
           /\ Len(Append(s, e)) = Len(s) + 1
           /\ \A i \in 1..Len(s) : Append(s, e)[i] = s[i]
           /\ Append(s, e)[Len(s) + 1] = e
  <1> DEFINE S == {s[i] : i \in DOMAIN s} \cup {e}
             t == Append(s, e)
  <1>1. s \in Seq(S) /\ e \in S
    <2>1. s \in Seq({s[i] : i \in DOMAIN s})
      BY DEF IsSequence
    <2> QED
      BY <2>1
  <1>2. /\ t \in Seq(S) /\ Len(t) = Len(s) + 1 /\ t[Len(s) + 1] = e
        /\ \A i \in 1..Len(s) : t[i] = s[i]
    <2> HIDE DEF S
    <2> QED
      BY <1>1, AppendProperties
  <1>3. t \in Seq({t[i] : i \in DOMAIN t})
    <2> HIDE DEF S, t
    <2> QED
      BY <1>2
  <1> QED
    BY <1>2, <1>3 DEF IsSequence

LEMMA FrontIs ==
    ASSUME NEW s, IsSequence(s), s # <<>>
    PROVE  /\ IsSequence(Front(s)) /\ Len(Front(s)) = Len(s) - 1
           /\ \A i \in 1..Len(s) - 1 : Front(s)[i] = s[i]
           /\ Last(s) = s[Len(s)]
  <1>1. Len(s) \in Nat \ {0}
    BY SequenceIs
  <1> DEFINE t == Front(s)
             S == {s[i] : i \in DOMAIN s}
  <1>2. s \in Seq(S)
    BY DEF IsSequence
  <1>3. t \in Seq(S) /\ Len(t) = Len(s) - 1 /\ \A i \in 1..Len(s) - 1 : t[i] = s[i]
    <2> HIDE DEF S
    <2>1. PICK N \in Nat : N = Len(s) - 1
      BY <1>1
    <2>2. \A i \in 1..N : s[i] \in S
      BY <1>1, <1>2, <2>1
    <2>3. t = SubSeq(s, 1, N)
      BY <2>1 DEF Front
    <2>4. t \in Seq(S) /\ Len(t) = N /\ \A i \in 1..N : t[i] = s[i]
      <3>1. (IF 1 <= N THEN N - 1 + 1 ELSE 0) = N /\ N - 1 + 1 = N /\ \A i \in 1..N : 1 + i - 1 = i
        OBVIOUS
      <3> HIDE DEF t
      <3> QED
        BY <2>2, <2>3, <3>1, SubSeqProperties
    <2> QED
      BY <2>1, <2>4
  <1>4. t \in Seq({t[i] : i \in DOMAIN t})
    <2> HIDE DEF S, t
    <2> QED
      BY <1>3
  <1> QED
    BY <1>3, <1>4 DEF IsSequence, Last

LEMMA SameSequence ==
    ASSUME NEW s, IsSequence(s), NEW t, IsSequence(t), Len(s) = Len(t),
           \A i \in 1..Len(s) : s[i] = t[i]
    PROVE  s = t
  <1>1. s = [i \in 1..Len(s) |-> s[i]]
    BY DEF IsSequence
  <1>2. t = [i \in 1..Len(t) |-> t[i]]
    BY DEF IsSequence
  <1> QED
    BY <1>1, <1>2

LEMMA FrontOfAppend ==
    ASSUME NEW s, IsSequence(s), NEW e
    PROVE  Front(Append(s, e)) = s
  <1> DEFINE t == Append(s, e)
  <1>1. /\ IsSequence(t) /\ Len(t) = Len(s) + 1 /\ Len(s) \in Nat
        /\ \A i \in 1..Len(s) : t[i] = s[i]
    BY AppendIs, SequenceIs
  <1> HIDE DEF t
  <1>2. t # <<>> /\ Len(t) - 1 = Len(s)
    BY <1>1, SequenceIs
  <1>3. /\ IsSequence(Front(t)) /\ Len(Front(t)) = Len(s)
        /\ \A i \in 1..Len(s) : Front(t)[i] = t[i]
    BY <1>1, <1>2, FrontIs
  <1>4. Front(t) = s
    BY <1>1, <1>3, SameSequence
  <1> QED
    BY <1>4 DEF t

LEMMA ExceptIs ==
    ASSUME NEW s, IsSequence(s), NEW n \in 1..Len(s), NEW e, NEW t, t = [s EXCEPT ![n] = e]
    PROVE  /\ IsSequence(t) /\ Len(t) = Len(s)
           /\ \A i \in 1..Len(s) : t[i] = IF i = n THEN e ELSE s[i]
  <1> DEFINE S == {s[i] : i \in DOMAIN s} \cup {e}
  <1>1. s \in Seq(S) /\ e \in S
    <2>1. s \in Seq({s[i] : i \in DOMAIN s})
      BY DEF IsSequence
    <2> QED
      BY <2>1
  <1>2. t \in Seq(S) /\ Len(t) = Len(s) /\ \A i \in 1..Len(s) : t[i] = IF i = n THEN e ELSE s[i]
    <2> HIDE DEF S
    <2> DEFINE x == [s EXCEPT ![n] = e]
    <2>1. x \in Seq(S) /\ Len(x) = Len(s) /\ \A i \in 1..Len(s) : x[i] = IF i = n THEN e ELSE s[i]
      BY <1>1
    <2>2. t = x
      OBVIOUS
    <2> HIDE DEF x
    <2> QED
      BY <2>1, <2>2
  <1> HIDE DEF S
  <1> QED
    BY <1>2, SequenceOf

------------------------------------------------------------------------------
(* A selection is noted, and a call begun for it.                            *)

Entering(fr, parent, on, items) ==
  Append([fr EXCEPT ![Len(fr)].met = @ + 1], Frame(parent, on, items))

LEMMA QueryWith ==
    ASSUME NEW q, NEW F, NEW O, NEW S, NEW T, NEW V, NEW X, NEW Y, NEW Z,
           q = [fragments |-> F, operations |-> O, selections |-> S, parents |-> T, sets |-> V]
    PROVE  [q EXCEPT !.selections = X, !.parents = Y, !.sets = Z] =
             [fragments |-> F, operations |-> O, selections |-> X, parents |-> Y, sets |-> Z]
  <1>1. PICK a : a = [q EXCEPT !.selections = X]
    OBVIOUS
  <1>2. a = [fragments |-> F, operations |-> O, selections |-> X, parents |-> T, sets |-> V]
    BY <1>1
  <1>3. PICK b : b = [a EXCEPT !.parents = Y]
    OBVIOUS
  <1>4. b = [fragments |-> F, operations |-> O, selections |-> X, parents |-> Y, sets |-> V]
    BY <1>2, <1>3
  <1>5. [b EXCEPT !.sets = Z] =
          [fragments |-> F, operations |-> O, selections |-> X, parents |-> Y, sets |-> Z]
    BY <1>4
  <1>6. [q EXCEPT !.selections = X, !.parents = Y, !.sets = Z] = [b EXCEPT !.sets = Z]
    BY <1>1, <1>3, Zenon
  <1> QED
    BY <1>5, <1>6

\* r is q with one selection more: a node under a parent, itself the parent k.
HasNoted(q, P, n, k, node, parent, r) ==
  /\ r = [fragments |-> r.fragments, operations |-> r.operations,
          selections |-> r.selections, parents |-> r.parents, sets |-> r.sets]
  /\ r.fragments = q.fragments /\ r.operations = q.operations
  /\ IsSequence(r.selections) /\ IsSequence(r.parents)
  /\ n \in Nat /\ Len(r.selections) = n + 1 /\ Len(r.parents) = n + 1
  /\ \A id \in 1..n : r.selections[id] = q.selections[id] /\ r.parents[id] = q.parents[id]
  /\ r.selections[n + 1] = node /\ r.parents[n + 1] = parent
  /\ Roots(r) = Roots(q) /\ Inner(r) = Inner(q) \cup {k}
  /\ k \notin P
  /\ r.sets \in [Roots(r) \cup Inner(r) -> Seq(Nat)]
  /\ r.sets[k] = <<>> /\ Len(r.sets[k]) = 0
  /\ \A p \in P : r.sets[p] = q.sets[p]

LEMMA NotingIs ==
    ASSUME NEW q, NEW it, NEW mf, NEW w, Recorded(q, it, mf, w),
           NEW node, node[1] \in Kinds, NEW parent,
           NEW n, n = Len(q.selections), NEW P, P = Roots(q) \cup Inner(q),
           NEW k, k = <<node[1], n + 1>>,
           NEW r, r = push_selection(q, node, parent)
    PROVE  HasNoted(q, P, n, k, node, parent, r)
  <1>1. /\ r.fragments = q.fragments /\ r.operations = q.operations
        /\ r.selections = Append(q.selections, node) /\ r.parents = Append(q.parents, parent)
        /\ r.sets = WithSet(q.sets, k)
        /\ r = [fragments |-> r.fragments, operations |-> r.operations,
                selections |-> r.selections, parents |-> r.parents, sets |-> r.sets]
    <2>1. q = [fragments |-> q.fragments, operations |-> q.operations,
               selections |-> q.selections, parents |-> q.parents, sets |-> q.sets]
      BY DEF Recorded
    <2>2. PICK F, O, S, T, V :
            q = [fragments |-> F, operations |-> O, selections |-> S, parents |-> T, sets |-> V]
      BY <2>1, Zenon
    <2>3. q.selections = S /\ q.parents = T /\ q.sets = V /\ q.fragments = F /\ q.operations = O
      BY <2>2
    <2>4. r = [q EXCEPT !.selections = Append(S, node), !.parents = Append(T, parent),
                        !.sets = WithSet(V, k)]
      BY <2>3, Zenon DEF push_selection
    <2>5. r = [fragments |-> F, operations |-> O, selections |-> Append(S, node),
               parents |-> Append(T, parent), sets |-> WithSet(V, k)]
      BY <2>2, <2>4, QueryWith
    <2> QED
      BY <2>3, <2>5
  <1>2. /\ IsSequence(q.selections) /\ IsSequence(q.parents) /\ Len(q.parents) = n
        /\ q.sets \in [P -> Seq(Nat)]
    BY DEF Recorded
  <1>3. n \in Nat
    BY <1>2, SequenceIs
  <1>4. /\ IsSequence(r.selections) /\ Len(r.selections) = n + 1 /\ r.selections[n + 1] = node
        /\ \A id \in 1..n : r.selections[id] = q.selections[id]
    BY <1>1, <1>2, AppendIs
  <1>5. /\ IsSequence(r.parents) /\ Len(r.parents) = n + 1 /\ r.parents[n + 1] = parent
        /\ \A id \in 1..n : r.parents[id] = q.parents[id]
    <2>1. IsSequence(q.parents)
      BY <1>2
    <2>2. /\ IsSequence(Append(q.parents, parent)) /\ Len(Append(q.parents, parent)) = n + 1
          /\ Append(q.parents, parent)[n + 1] = parent
          /\ \A id \in 1..n : Append(q.parents, parent)[id] = q.parents[id]
      BY <1>2, <2>1, AppendIs
    <2> QED
      BY <1>1, <2>2
  <1>6. Roots(r) = Roots(q)
    BY <1>1 DEF Roots
  <1>7. Inner(r) = Inner(q) \cup {k}
    <2>1. 1..n + 1 = 1..n \cup {n + 1}
      BY <1>3
    <2>2. Ids(r) = Ids(q) \cup {n + 1}
      BY <1>4, <2>1 DEF Ids
    <2>3. \A id \in Ids(q) : r.selections[id] = q.selections[id]
      BY <1>4 DEF Ids
    <2>4. r.selections[n + 1][1] = node[1]
      BY <1>4
    <2> QED
      BY <2>2, <2>3, <2>4 DEF Inner
  <1>8. k \notin P
    <2>1. k \notin Roots(q)
      BY DEF Roots, Kinds
    <2>2. k \notin Inner(q)
      BY <1>3 DEF Inner, Ids
    <2> QED
      BY <2>1, <2>2
  <1>9. /\ r.sets \in [P \cup {k} -> Seq(Nat)] /\ r.sets[k] = <<>>
        /\ \A p \in P : r.sets[p] = q.sets[p]
    <2>1. DOMAIN q.sets = P /\ \A p \in P : q.sets[p] \in Seq(Nat)
      BY <1>2
    <2>2. <<>> \in Seq(Nat)
      OBVIOUS
    <2> QED
      BY ZenonT(60), <1>1, <1>8, <2>1, <2>2 DEF WithSet
  <1>10. Len(r.sets[k]) = 0
    BY <1>9
  <1>11. Roots(r) \cup Inner(r) = P \cup {k}
    BY <1>6, <1>7
  <1> QED
    BY <1>1, <1>3, <1>4, <1>5, <1>6, <1>7, <1>8, <1>9, <1>10, <1>11 DEF HasNoted

\* The calls with one item more met.
Passing(fr) == [fr EXCEPT ![Len(fr)].met = @ + 1]

\* g is the calls fr with one item more met by the last.
HasPassed(P, fr, h, g) ==
  \A j \in 1..h :
    /\ g[j] \in [parent : P, on : {fr[j].on}, items : Seq(Items), met : Nat]
    /\ g[j].parent = fr[j].parent /\ g[j].on = fr[j].on /\ g[j].items = fr[j].items
    /\ g[j].met = IF j = h THEN fr[j].met + 1 ELSE fr[j].met

LEMMA PassingIs ==
    ASSUME NEW q, NEW it, NEW mf, NEW fr, Stacked(q, fr, it, mf), fr # <<>>,
           NEW h, h = Len(fr), NEW P, P = Roots(q) \cup Inner(q),
           NEW g, g = Passing(fr)
    PROVE  /\ IsSequence(g) /\ Len(g) = h /\ h \in Nat \ {0} /\ g # <<>>
           /\ HasPassed(P, fr, h, g)
  <1> DEFINE top == [fr[h] EXCEPT !.met = @ + 1]
  <1>1. IsSequence(fr)
    BY DEF Stacked
  <1>2. h \in Nat \ {0} /\ h \in 1..Len(fr) /\ h = Len(fr) /\ DOMAIN fr = 1..h
    BY <1>1, SequenceIs
  <1>3. g = [fr EXCEPT ![h] = top]
    BY DEF Passing
  <1>4. /\ IsSequence(g) /\ Len(g) = h
        /\ \A j \in 1..h : g[j] = IF j = h THEN top ELSE fr[j]
    <2> HIDE DEF top
    <2>1. /\ IsSequence(g) /\ Len(g) = Len(fr)
          /\ \A j \in 1..Len(fr) : g[j] = IF j = h THEN top ELSE fr[j]
      BY <1>1, <1>2, <1>3, ExceptIs, Zenon
    <2> QED
      BY <1>2, <2>1
  <1>5. \A j \in 1..h : fr[j] \in [parent : P, on : {fr[j].on}, items : Seq(Items), met : Nat]
    BY DEF Stacked
  <1>6. /\ top \in [parent : P, on : {fr[h].on}, items : Seq(Items), met : Nat]
        /\ top.parent = fr[h].parent /\ top.on = fr[h].on /\ top.items = fr[h].items
        /\ top.met = fr[h].met + 1
    <2>1. fr[h] \in [parent : P, on : {fr[h].on}, items : Seq(Items), met : Nat]
      BY <1>2, <1>5
    <2> QED
      BY <2>1
  <1>7. g # <<>>
    BY <1>2, <1>4, SequenceIs
  <1> HIDE DEF top
  <1>8. ASSUME NEW j \in 1..h
        PROVE  /\ g[j] \in [parent : P, on : {fr[j].on}, items : Seq(Items), met : Nat]
               /\ g[j].parent = fr[j].parent /\ g[j].on = fr[j].on /\ g[j].items = fr[j].items
               /\ g[j].met = IF j = h THEN fr[j].met + 1 ELSE fr[j].met
    <2>1. CASE j = h
      BY <1>2, <1>4, <1>6, <2>1
    <2>2. CASE j # h
      BY <1>4, <1>5, <2>2
    <2> QED
      BY <2>1, <2>2
  <1> QED
    BY <1>2, <1>4, <1>7, <1>8, Zenon DEF HasPassed

\* The calls with one more, which has met nothing.
\* g is the calls fr with one more, for an item more.
HasEntered(P, fr, h, parent, on, items, g) ==
  /\ IsSequence(g) /\ Len(g) = h + 1 /\ h \in Nat \ {0}
  /\ HasPassed(P, fr, h, g)
  /\ g[h + 1] = Frame(parent, on, items)
  /\ g[h + 1].parent = parent /\ g[h + 1].on = on
  /\ g[h + 1].items = items /\ g[h + 1].met = 0
  /\ Front(g) = Passing(fr)

LEMMA EnteringIs ==
    ASSUME NEW q, NEW it, NEW mf, NEW fr, Stacked(q, fr, it, mf), fr # <<>>,
           NEW parent, NEW on, NEW items, NEW h, h = Len(fr), NEW P, P = Roots(q) \cup Inner(q),
           NEW g, g = Entering(fr, parent, on, items)
    PROVE  HasEntered(P, fr, h, parent, on, items, g)
  <1> DEFINE F == Frame(parent, on, items)
  <1>1. PICK p : p = Passing(fr)
    OBVIOUS
  <1>2. IsSequence(p) /\ Len(p) = h /\ h \in Nat \ {0} /\ HasPassed(P, fr, h, p)
    BY <1>1, PassingIs
  <1>3. F.parent = parent /\ F.on = on /\ F.items = items /\ F.met = 0
    BY DEF Frame
  <1>4. g = Append(p, F)
    BY <1>1 DEF Entering, Passing
  <1> HIDE DEF F
  <1>5. /\ IsSequence(g) /\ Len(g) = h + 1 /\ g[h + 1] = F
        /\ \A j \in 1..h : g[j] = p[j]
    BY <1>2, <1>4, AppendIs
  <1>6. Front(g) = p
    BY <1>2, <1>4, FrontOfAppend
  <1>7. HasPassed(P, fr, h, g)
    BY <1>2, <1>5 DEF HasPassed
  <1> QED
    BY <1>1, <1>2, <1>3, <1>5, <1>6, <1>7 DEF F, HasEntered

\* A call meets its next item, notes a selection and begins another call for it.
Pushes(q, fr, it, mf, w, node, on, items, n, h, P, k, q2, fr2, it2, mf2, w2) ==
  /\ Building(q, fr, it, mf, w) /\ fr # <<>> /\ fr[h].met < Len(fr[h].items)
  /\ node[1] \in Kinds /\ items \in Seq(Items)
  /\ n = Len(q.selections) /\ h = Len(fr) /\ P = Roots(q) \cup Inner(q)
  /\ k = <<node[1], n + 1>>
  /\ q2 = push_selection(q, node, fr[h].parent)
  /\ fr2 = Entering(fr, k, on, items)
  /\ it2 = Append(it, fr[h].items[fr[h].met + 1])
  /\ mf2 = Append(mf, fr[1].parent)
  /\ w2 = [p \in P \cup {k} |-> IF p = k THEN items ELSE w[p]]

\* The query is still under construction then.
LEMMA PushKeeps ==
    ASSUME NEW q, NEW fr, NEW it, NEW mf, NEW w, NEW node, NEW on, NEW items,
           NEW n, NEW h, NEW P, NEW k, NEW q2, NEW fr2, NEW it2, NEW mf2, NEW w2,
           Pushes(q, fr, it, mf, w, node, on, items, n, h, P, k, q2, fr2, it2, mf2, w2)
    PROVE  Building(q2, fr2, it2, mf2, w2)
  <1>0. SUFFICES
          ASSUME Building(q, fr, it, mf, w), fr # <<>>, fr[h].met < Len(fr[h].items),
                 node[1] \in Kinds, items \in Seq(Items),
                 n = Len(q.selections), h = Len(fr), P = Roots(q) \cup Inner(q),
                 k = <<node[1], n + 1>>, q2 = push_selection(q, node, fr[h].parent),
                 fr2 = Entering(fr, k, on, items),
                 it2 = Append(it, fr[h].items[fr[h].met + 1]),
                 mf2 = Append(mf, fr[1].parent),
                 w2 = [p \in P \cup {k} |-> IF p = k THEN items ELSE w[p]]
          PROVE  Building(q2, fr2, it2, mf2, w2)
    BY DEF Pushes
  <1>1. /\ Recorded(q, it, mf, w) /\ Rooted(q, mf) /\ Placed(q, fr)
        /\ Stacked(q, fr, it, mf) /\ Filled(q, fr, it, w)
        /\ n = Len(q.selections) /\ h = Len(fr) /\ P = Roots(q) \cup Inner(q)
    BY <1>0 DEF Building
  <1>2. HasNoted(q, P, n, k, node, fr[h].parent, q2)
    BY <1>0, <1>1, NotingIs
  <1>3. HasEntered(P, fr, h, k, on, items, fr2)
    BY <1>0, <1>1, EnteringIs
  <1>4. /\ IsSequence(it) /\ Len(it) = n /\ IsSequence(mf) /\ Len(mf) = n
        /\ IsSequence(q.fragments) /\ IsSequence(q.operations)
        /\ \A id \in 1..n : it[id] \in Items /\ q.selections[id][1] \in Kinds
        /\ q.sets \in [P -> Seq(Nat)] /\ w \in [P -> Seq(Items)]
    BY <1>0, <1>1 DEF Recorded, Ids
  <1>5. /\ IsSequence(it2) /\ Len(it2) = n + 1
        /\ \A id \in 1..n : it2[id] = it[id]
        /\ it2[n + 1] = fr[h].items[fr[h].met + 1]
    <2>1. it2 = Append(it, fr[h].items[fr[h].met + 1])
      BY <1>0
    <2> QED
      BY <1>4, <2>1, AppendIs
  <1>6. /\ IsSequence(mf2) /\ Len(mf2) = n + 1
        /\ \A id \in 1..n : mf2[id] = mf[id]
        /\ mf2[n + 1] = fr[1].parent
    <2>1. mf2 = Append(mf, fr[1].parent)
      BY <1>0
    <2> QED
      BY <1>4, <2>1, AppendIs
  <1>7. w2 \in [P \cup {k} -> Seq(Items)] /\ w2[k] = items /\ \A p \in P : w2[p] = w[p]
    BY <1>0, <1>2, <1>4 DEF HasNoted
  <1>8. /\ \A j \in 1..h :
             fr[j] \in [parent : P, on : {fr[j].on}, items : Seq(Items), met : Nat]
        /\ fr[1].parent \in Roots(q)
        /\ h \in 1..h /\ 1 \in 1..h /\ DOMAIN fr = 1..h
    BY <1>0, <1>1, <1>3, SequenceIs DEF Stacked
  <1>9. \A j \in 1..h : fr[j].parent \in P /\ fr[j].items \in Seq(Items) /\ fr[j].met \in Nat
    BY <1>0, <1>8
  <1>10. Ids(q) = 1..n /\ Ids(q2) = 1..n + 1 /\ \A id \in 1..n + 1 : id \in 1..n \/ id = n + 1
    <2>1. n \in Nat /\ n = Len(q.selections) /\ Len(q2.selections) = n + 1
      BY <1>0, <1>2 DEF HasNoted
    <2>2. \A id \in 1..n + 1 : id \in 1..n \/ id = n + 1
      BY <2>1
    <2> QED
      BY <2>1, <2>2 DEF Ids
  <1>11. k[1] = node[1] /\ k[2] = n + 1
    BY <1>0
  <1>12. /\ Roots(q2) = Roots(q) /\ Inner(q2) = Inner(q) \cup {k} /\ Roots(q2) \cup Inner(q2) = P \cup {k}
         /\ fr[h].parent \in P /\ fr[h].met \in Nat /\ fr[h].items \in Seq(Items)
         /\ fr[h].met + 1 \in 1..Len(fr[h].items)
         /\ fr[h].items[fr[h].met + 1] \in Items
    <2>1. fr[h].parent \in P /\ fr[h].met \in Nat /\ fr[h].items \in Seq(Items)
      BY <1>8, <1>9
    <2>2. Len(fr[h].items) \in Nat
      BY <2>1
    <2>3. fr[h].met + 1 \in 1..Len(fr[h].items)
      BY SMTT(40), <1>0, <2>1, <2>2
    <2>4. Roots(q2) = Roots(q) /\ Inner(q2) = Inner(q) \cup {k}
      BY <1>2 DEF HasNoted
    <2> QED
      BY <1>1, <2>1, <2>3, <2>4
  <1>13. /\ n \in Nat /\ h \in Nat \ {0}
         /\ \A id \in 1..n : q2.selections[id] = q.selections[id] /\ q2.parents[id] = q.parents[id]
         /\ q2.selections[n + 1] = node /\ q2.parents[n + 1] = fr[h].parent
         /\ k \notin P /\ Len(q2.sets[k]) = 0 /\ \A p \in P : q2.sets[p] = q.sets[p]
    BY <1>2, <1>3 DEF HasNoted, HasEntered
  <1>14. /\ Len(fr2) = h + 1 /\ fr2[h + 1].parent = k /\ fr2[h + 1].items = items
         /\ fr2[h + 1].met = 0
         /\ \A j \in 1..h : /\ fr2[j].parent = fr[j].parent /\ fr2[j].items = fr[j].items
                            /\ fr2[j].met = IF j = h THEN fr[j].met + 1 ELSE fr[j].met
    BY <1>3 DEF HasEntered, HasPassed
  <1>15. \A id \in 1..n : q.parents[id] \in P
    BY <1>1, <1>10 DEF Rooted
  <1>16. \A p \in Inner(q) : p[2] \in 1..n
    BY <1>10 DEF Inner
  <1>17. Recorded(q2, it2, mf2, w2)
    <2>1. ASSUME NEW id \in 1..n + 1
          PROVE  it2[id] \in Items /\ q2.selections[id][1] \in Kinds
      <3>1. CASE id \in 1..n
        BY <1>4, <1>5, <1>13, <3>1
      <3>2. CASE id = n + 1
        <4>1. node[1] \in Kinds
          BY <1>0
        <4> QED
          BY <1>5, <1>12, <1>13, <3>2, <4>1
      <3> QED
        BY <1>10, <3>1, <3>2
    <2>2. /\ q2 = [fragments |-> q2.fragments, operations |-> q2.operations,
                   selections |-> q2.selections, parents |-> q2.parents, sets |-> q2.sets]
          /\ q2.fragments = q.fragments /\ q2.operations = q.operations
          /\ IsSequence(q2.selections) /\ IsSequence(q2.parents)
          /\ Len(q2.selections) = n + 1 /\ Len(q2.parents) = n + 1
          /\ q2.sets \in [Roots(q2) \cup Inner(q2) -> Seq(Nat)]
      BY <1>2 DEF HasNoted
    <2> QED
      BY <1>4, <1>5, <1>6, <1>7, <1>10, <1>12, <2>1, <2>2, Zenon DEF Recorded
  <1>18. Rooted(q2, mf2)
    <2>1. ASSUME NEW id \in 1..n
          PROVE  \/ q2.parents[id] \in Roots(q2) /\ mf2[id] = q2.parents[id]
                 \/ /\ q2.parents[id] \in Inner(q2) /\ q2.parents[id][2] < id
                    /\ mf2[id] = mf2[q2.parents[id][2]]
      <3>1. \/ q.parents[id] \in Roots(q) /\ mf[id] = q.parents[id]
            \/ /\ q.parents[id] \in Inner(q) /\ q.parents[id][2] < id
               /\ mf[id] = mf[q.parents[id][2]]
        BY <1>1, <1>10 DEF Rooted
      <3>2. q2.parents[id] = q.parents[id] /\ mf2[id] = mf[id]
        BY <1>6, <1>13
      <3>3. q.parents[id] \in Inner(q) => mf2[q.parents[id][2]] = mf[q.parents[id][2]]
        BY <1>6, <1>16
      <3> QED
        BY <1>12, <3>1, <3>2, <3>3
    <2>2. \/ q2.parents[n + 1] \in Roots(q2) /\ mf2[n + 1] = q2.parents[n + 1]
          \/ /\ q2.parents[n + 1] \in Inner(q2) /\ q2.parents[n + 1][2] < n + 1
             /\ mf2[n + 1] = mf2[q2.parents[n + 1][2]]
      <3>1. CASE h = 1
        BY <1>6, <1>8, <1>12, <1>13, <3>1
      <3>2. CASE h # 1
        <4>1. h \in 2..Len(fr)
          BY <1>1, <1>13, <3>2
        <4>2. fr[h].parent \in Inner(q) /\ mf[fr[h].parent[2]] = fr[1].parent
          BY <1>1, <4>1 DEF Stacked
        <4>3. fr[h].parent[2] \in 1..n
          BY <1>16, <4>2
        <4>4. fr[h].parent[2] < n + 1
          BY <1>13, <4>3
        <4> QED
          BY <1>6, <1>12, <1>13, <4>2, <4>3, <4>4
      <3> QED
        BY <3>1, <3>2
    <2> QED
      BY <1>10, <2>1, <2>2 DEF Rooted
  <1>19. Placed(q2, fr2)
    <2>1. ASSUME NEW p \in P \cup {k}, NEW i \in 1..Len(q2.sets[p])
          PROVE  /\ q2.sets[p][i] \in Ids(q2) /\ q2.parents[q2.sets[p][i]] = p
                 /\ \A j \in 2..Len(fr2) : fr2[j].parent[2] # q2.sets[p][i]
                 /\ \A l \in 1..Len(q2.sets[p]) : q2.sets[p][l] = q2.sets[p][i] => l = i
      <3>1. p \in P /\ q2.sets[p] = q.sets[p]
        BY <1>13
      <3>2. /\ q.sets[p][i] \in 1..n /\ q.parents[q.sets[p][i]] = p
            /\ \A j \in 2..h : fr[j].parent[2] # q.sets[p][i]
            /\ \A l \in 1..Len(q.sets[p]) : q.sets[p][l] = q.sets[p][i] => l = i
        BY <1>1, <1>10, <3>1 DEF Placed
      <3>3. ASSUME NEW j \in 2..Len(fr2)
            PROVE  fr2[j].parent[2] # q.sets[p][i]
        <4>1. j \in 2..h \/ j = h + 1
          BY <1>13, <1>14
        <4>2. CASE j \in 2..h
          BY <1>13, <1>14, <3>2, <4>2
        <4>3. CASE j = h + 1
          BY <1>11, <1>13, <1>14, <3>2, <4>3
        <4> QED
          BY <4>1, <4>2, <4>3
      <3>4. q.sets[p][i] \in Ids(q2) /\ q2.parents[q.sets[p][i]] = p
        BY <1>10, <1>13, <3>2
      <3> QED
        BY <3>1, <3>2, <3>3, <3>4
    <2>2. ASSUME NEW id \in 1..n + 1
          PROVE  \/ \E i \in 1..Len(q2.sets[q2.parents[id]]) : q2.sets[q2.parents[id]][i] = id
                 \/ \E j \in 2..Len(fr2) : fr2[j].parent[2] = id
      <3>1. CASE id \in 1..n
        <4>1. q2.parents[id] = q.parents[id] /\ q2.sets[q.parents[id]] = q.sets[q.parents[id]]
          BY <1>13, <1>15, <3>1
        <4>2. \/ \E i \in 1..Len(q.sets[q.parents[id]]) : q.sets[q.parents[id]][i] = id
              \/ \E j \in 2..h : fr[j].parent[2] = id
          BY <1>1, <1>10, <3>1 DEF Placed
        <4>3. ASSUME NEW j \in 2..h
              PROVE  j \in 2..Len(fr2) /\ fr2[j].parent = fr[j].parent
          BY <1>13, <1>14
        <4> QED
          BY <4>1, <4>2, <4>3
      <3>2. CASE id = n + 1
        <4>1. h + 1 \in 2..Len(fr2)
          BY <1>13, <1>14
        <4> QED
          BY <1>11, <1>14, <3>2, <4>1
      <3> QED
        BY <1>10, <3>1, <3>2
    <2> QED
      BY <1>10, <1>12, <2>1, <2>2 DEF Placed
  <1>20. Stacked(q2, fr2, it2, mf2)
    <2>1. ASSUME NEW j \in 1..Len(fr2)
          PROVE  fr2[j] \in [parent : P \cup {k}, on : {fr2[j].on}, items : Seq(Items), met : Nat]
      <3>1. j \in 1..h \/ j = h + 1
        BY <1>13, <1>14
      <3>2. CASE j \in 1..h
        BY <1>3, <3>2 DEF HasEntered, HasPassed
      <3>3. CASE j = h + 1
        <4>1. items \in Seq(Items)
          BY <1>0
        <4>2. fr2[h + 1] = [parent |-> k, on |-> on, items |-> items, met |-> 0]
          BY <1>3 DEF HasEntered, Frame
        <4> QED
          BY <3>3, <4>1, <4>2
      <3> QED
        BY <3>1, <3>2, <3>3
    <2>2. fr2[1].parent = fr[1].parent /\ fr2[1].parent \in Roots(q2)
      BY <1>8, <1>12, <1>14
    <2>3. ASSUME NEW j \in 2..Len(fr2)
          PROVE  /\ fr2[j].parent \in Inner(q2)
                 /\ q2.parents[fr2[j].parent[2]] = fr2[j - 1].parent
                 /\ fr2[j - 1].met > 0
                 /\ it2[fr2[j].parent[2]] = fr2[j - 1].items[fr2[j - 1].met]
                 /\ mf2[fr2[j].parent[2]] = fr2[1].parent
      <3>1. j \in 2..h \/ j = h + 1
        BY <1>13, <1>14
      <3>2. CASE j \in 2..h
        <4> DEFINE id == fr[j].parent[2]
        <4>1. /\ fr[j].parent \in Inner(q) /\ q.parents[id] = fr[j - 1].parent
              /\ fr[j - 1].met > 0 /\ it[id] = fr[j - 1].items[fr[j - 1].met]
              /\ mf[id] = fr[1].parent
          BY <1>1, <3>2 DEF Stacked
        <4>2. id \in 1..n
          BY <1>16, <4>1
        <4>3. j \in 1..h /\ j - 1 \in 1..h /\ j - 1 # h
          BY <1>13, <3>2
        <4>4. /\ fr2[j].parent = fr[j].parent /\ fr2[j - 1].parent = fr[j - 1].parent
              /\ fr2[j - 1].items = fr[j - 1].items /\ fr2[j - 1].met = fr[j - 1].met
          BY <1>14, <4>3
        <4>5. q2.parents[id] = q.parents[id] /\ it2[id] = it[id] /\ mf2[id] = mf[id]
          BY <1>5, <1>6, <1>13, <4>2
        <4>6. fr[j].parent \in Inner(q2)
          BY <1>12, <4>1
        <4> QED
          BY <2>2, <4>1, <4>4, <4>5, <4>6
      <3>3. CASE j = h + 1
        <4>1. j - 1 = h /\ h \in 1..h
          BY <1>13, <3>3
        <4>2. /\ fr2[j].parent = k /\ fr2[j - 1].parent = fr[h].parent
              /\ fr2[j - 1].items = fr[h].items /\ fr2[j - 1].met = fr[h].met + 1
          BY <1>14, <3>3, <4>1
        <4>3. fr[h].met + 1 > 0 /\ k \in Inner(q2)
          BY <1>12
        <4> QED
          BY <1>5, <1>6, <1>11, <1>13, <2>2, <4>2, <4>3
      <3> QED
        BY <3>1, <3>2, <3>3
    <2>4. ASSUME NEW j \in 1..Len(fr2), NEW l \in 1..Len(fr2), fr2[j].parent = fr2[l].parent
          PROVE  j = l
      <3>1. (j \in 1..h \/ j = h + 1) /\ (l \in 1..h \/ l = h + 1)
        BY <1>13, <1>14
      <3>2. \A m \in 1..h : fr2[m].parent = fr[m].parent /\ fr2[m].parent # k
        BY <1>9, <1>13, <1>14
      <3>3. \A m, x \in 1..h : fr[m].parent = fr[x].parent => m = x
        BY <1>1 DEF Stacked
      <3> QED
        BY <1>14, <2>4, <3>1, <3>2, <3>3
    <2>5. IsSequence(fr2)
      BY <1>3 DEF HasEntered
    <2> QED
      BY <1>12, <2>1, <2>2, <2>3, <2>4, <2>5 DEF Stacked
  <1>21. Filled(q2, fr2, it2, w2)
    <2>1. ASSUME NEW p \in P \cup {k}
          PROVE  /\ Len(q2.sets[p]) <= Len(w2[p])
                 /\ \A i \in 1..Len(q2.sets[p]) : it2[q2.sets[p][i]] = w2[p][i]
                 /\ (\A j \in 1..Len(fr2) : fr2[j].parent # p) => Len(q2.sets[p]) = Len(w2[p])
      <3>1. CASE p = k
        <4>1. h + 1 \in 1..Len(fr2) /\ Len(w2[k]) \in Nat
          BY <1>7, <1>13, <1>14
        <4> QED
          BY <1>13, <1>14, <3>1, <4>1
      <3>2. CASE p \in P
        <4>1. q2.sets[p] = q.sets[p] /\ w2[p] = w[p]
          BY <1>7, <1>13, <3>2
        <4>2. /\ Len(q.sets[p]) <= Len(w[p])
              /\ \A i \in 1..Len(q.sets[p]) : it[q.sets[p][i]] = w[p][i]
              /\ (\A j \in 1..Len(fr) : fr[j].parent # p) => Len(q.sets[p]) = Len(w[p])
          BY <1>1, <3>2 DEF Filled
        <4>3. \A i \in 1..Len(q.sets[p]) : it2[q.sets[p][i]] = it[q.sets[p][i]]
          BY <1>1, <1>5, <1>10, <3>2 DEF Placed
        <4>4. (\A j \in 1..Len(fr2) : fr2[j].parent # p) => \A j \in 1..Len(fr) : fr[j].parent # p
          <5>1. \A j \in 1..Len(fr) : j \in 1..Len(fr2) /\ fr2[j].parent = fr[j].parent
            BY <1>1, <1>13, <1>14
          <5> QED
            BY <5>1
        <4> QED
          BY <4>1, <4>2, <4>3, <4>4
      <3> QED
        BY <3>1, <3>2
    <2>2. ASSUME NEW j \in 1..Len(fr2), NEW p, p = fr2[j].parent
          PROVE  /\ fr2[j].met <= Len(fr2[j].items)
                 /\ Len(q2.sets[p]) + (IF j < Len(fr2) THEN 1 ELSE 0) + Len(fr2[j].items) - fr2[j].met
                      = Len(w2[p])
                 /\ \A m \in 1..Len(fr2[j].items) :
                      fr2[j].items[m] = w2[p][Len(w2[p]) - Len(fr2[j].items) + m]
      <3>1. j \in 1..h \/ j = h + 1
        BY <1>13, <1>14
      <3>2. CASE j \in 1..h
        <4>1. /\ p = fr[j].parent /\ p \in P /\ fr2[j].items = fr[j].items
              /\ fr2[j].met = IF j = h THEN fr[j].met + 1 ELSE fr[j].met
              /\ fr[j].met \in Nat /\ fr[j].items \in Seq(Items)
          BY <1>9, <1>14, <2>2, <3>2
        <4>2. q2.sets[p] = q.sets[p] /\ w2[p] = w[p] /\ q.sets[p] \in Seq(Nat) /\ w[p] \in Seq(Items)
          BY <1>4, <1>7, <1>13, <4>1
        <4>3. /\ fr[j].met <= Len(fr[j].items)
              /\ Len(q.sets[p]) + (IF j < h THEN 1 ELSE 0) + Len(fr[j].items) - fr[j].met = Len(w[p])
              /\ \A m \in 1..Len(fr[j].items) :
                   fr[j].items[m] = w[p][Len(w[p]) - Len(fr[j].items) + m]
          BY <1>1, <3>2, <4>1 DEF Filled
        <4>4. PICK a \in Nat, b \in Nat, c \in Nat :
                a = Len(q.sets[p]) /\ b = Len(fr[j].items) /\ c = Len(w[p])
          BY <4>1, <4>2
        <4>5. j < Len(fr2) /\ (j = h => fr[j].met < b)
          <5>1. fr[h].met < Len(fr[h].items)
            BY <1>0
          <5> QED
            BY <1>13, <1>14, <3>2, <4>4, <5>1
        <4>6. fr2[j].met <= b /\ a + 1 + b - fr2[j].met = c
          <5>1. PICK d \in Nat : d = fr[j].met
            BY <4>1
          <5>2. d <= b /\ a + (IF j < h THEN 1 ELSE 0) + b - d = c
            BY <4>3, <4>4, <5>1
          <5>3. fr2[j].met = IF j = h THEN d + 1 ELSE d
            BY <4>1, <5>1
          <5>4. j \in Nat /\ j <= h /\ (j = h => d < b)
            BY <1>13, <3>2, <4>5, <5>1
          <5>5. CASE j = h
            BY <1>13, <5>2, <5>3, <5>4, <5>5
          <5>6. CASE j < h
            <6>1. fr2[j].met = d /\ a + 1 + b - d = c
              BY <1>13, <5>2, <5>3, <5>4, <5>6
            <6> QED
              BY <5>2, <6>1
          <5> QED
            BY <1>13, <5>4, <5>5, <5>6
        <4> QED
          BY <4>1, <4>2, <4>3, <4>4, <4>5, <4>6
      <3>3. CASE j = h + 1
        <4>1. p = k /\ fr2[j].items = items /\ fr2[j].met = 0 /\ ~(j < Len(fr2)) /\ w2[p] = items
          BY <1>7, <1>13, <1>14, <2>2, <3>3
        <4>2. PICK c \in Nat : c = Len(items)
          <5>1. items \in Seq(Items)
            BY <1>0
          <5> QED
            BY <5>1
        <4>3. Len(q2.sets[p]) = 0
          BY <1>13, <4>1
        <4> QED
          BY <4>1, <4>2, <4>3
      <3> QED
        BY <3>1, <3>2, <3>3
    <2>3. \A j \in 1..Len(fr2) :
            LET p == fr2[j].parent IN
            /\ fr2[j].met <= Len(fr2[j].items)
            /\ Len(q2.sets[p]) + (IF j < Len(fr2) THEN 1 ELSE 0) + Len(fr2[j].items) - fr2[j].met
                 = Len(w2[p])
            /\ \A m \in 1..Len(fr2[j].items) :
                 fr2[j].items[m] = w2[p][Len(w2[p]) - Len(fr2[j].items) + m]
      BY <2>2, Zenon
    <2>4. Roots(q2) \cup Inner(q2) = P \cup {k}
      BY <1>12
    <2> QED
      BY <2>1, <2>3, <2>4, Zenon DEF Filled
  <1> QED
    BY <1>17, <1>18, <1>19, <1>20, <1>21 DEF Building

------------------------------------------------------------------------------
(* A call returns, and the selection it was for is put in its parent's set.  *)

\* r is q with one element more in the set of p.
HasAdded(q, P, p, id, r) ==
  /\ r = [fragments |-> r.fragments, operations |-> r.operations,
          selections |-> r.selections, parents |-> r.parents, sets |-> r.sets]
  /\ r.fragments = q.fragments /\ r.operations = q.operations
  /\ r.selections = q.selections /\ r.parents = q.parents
  /\ Roots(r) = Roots(q) /\ Inner(r) = Inner(q) /\ Ids(r) = Ids(q)
  /\ r.sets \in [P -> Seq(Nat)]
  /\ \A x \in P : x # p => r.sets[x] = q.sets[x]
  /\ Len(r.sets[p]) = Len(q.sets[p]) + 1
  /\ \A i \in 1..Len(q.sets[p]) : r.sets[p][i] = q.sets[p][i]
  /\ r.sets[p][Len(q.sets[p]) + 1] = id

LEMMA AddingIs ==
    ASSUME NEW q, NEW it, NEW mf, NEW w, Recorded(q, it, mf, w),
           NEW P, P = Roots(q) \cup Inner(q), NEW p \in P, NEW id \in Nat,
           NEW r, r = add_to_selection_set(q, p, id)
    PROVE  HasAdded(q, P, p, id, r)
  <1>1. q.sets \in [P -> Seq(Nat)]
    BY DEF Recorded
  <1>2. PICK F, O, S, T, V :
          q = [fragments |-> F, operations |-> O, selections |-> S, parents |-> T, sets |-> V]
    BY Zenon DEF Recorded
  <1>3. q.selections = S /\ q.parents = T /\ q.sets = V /\ q.fragments = F /\ q.operations = O
    BY <1>2
  <1>4. PICK L : L = Append(V[p], id)
    OBVIOUS
  <1>5. r = [q EXCEPT !.sets[p] = L]
    BY <1>3, <1>4 DEF add_to_selection_set
  <1>6. PICK W : W = [V EXCEPT ![p] = L]
    OBVIOUS
  <1>7. r = [fragments |-> F, operations |-> O, selections |-> S, parents |-> T, sets |-> W]
    BY <1>2, <1>5, <1>6
  <1>8. V[p] \in Seq(Nat)
    BY <1>1, <1>3
  <1>9. /\ L \in Seq(Nat) /\ Len(L) = Len(V[p]) + 1 /\ L[Len(V[p]) + 1] = id
        /\ \A i \in 1..Len(V[p]) : L[i] = V[p][i]
    BY <1>4, <1>8, AppendProperties
  <1>10. W \in [P -> Seq(Nat)] /\ W[p] = L /\ \A x \in P : x # p => W[x] = V[x]
    <2>1. V \in [P -> Seq(Nat)] /\ L \in Seq(Nat)
      BY <1>1, <1>3, <1>9
    <2> QED
      BY <1>6, <2>1
  <1>11. /\ r.fragments = F /\ r.operations = O /\ r.selections = S /\ r.parents = T /\ r.sets = W
    BY <1>7
  <1>12. Roots(r) = Roots(q) /\ Inner(r) = Inner(q) /\ Ids(r) = Ids(q)
    BY <1>3, <1>11 DEF Roots, Inner, Ids
  <1> QED
    BY <1>3, <1>7, <1>9, <1>10, <1>11, <1>12, Zenon DEF HasAdded

\* A call that is not the first returns.
Pops(q, fr, it, mf, w, h, P, p, id, q2, fr2) ==
  /\ Building(q, fr, it, mf, w) /\ h = Len(fr) /\ h > 1
  /\ fr[h].met = Len(fr[h].items)
  /\ P = Roots(q) \cup Inner(q) /\ id = fr[h].parent[2] /\ p = q.parents[id]
  /\ q2 = add_to_selection_set(q, p, id) /\ fr2 = Front(fr)

\* The query is still under construction then.
LEMMA PopKeeps ==
    ASSUME NEW q, NEW fr, NEW it, NEW mf, NEW w, NEW h, NEW P, NEW p, NEW id, NEW q2, NEW fr2,
           Pops(q, fr, it, mf, w, h, P, p, id, q2, fr2)
    PROVE  Building(q2, fr2, it, mf, w)
  <1>0. SUFFICES
          ASSUME Building(q, fr, it, mf, w), h = Len(fr), h > 1, fr[h].met = Len(fr[h].items),
                 P = Roots(q) \cup Inner(q), id = fr[h].parent[2], p = q.parents[id],
                 q2 = add_to_selection_set(q, p, id), fr2 = Front(fr)
          PROVE  Building(q2, fr2, it, mf, w)
    BY DEF Pops
  <1>1. /\ Recorded(q, it, mf, w) /\ Rooted(q, mf) /\ Placed(q, fr)
        /\ Stacked(q, fr, it, mf) /\ Filled(q, fr, it, w)
        /\ h = Len(fr) /\ P = Roots(q) \cup Inner(q)
    BY <1>0 DEF Building
  <1>2. IsSequence(fr) /\ h \in Nat /\ fr # <<>> /\ DOMAIN fr = 1..h
    <2>1. IsSequence(fr)
      BY <1>1 DEF Stacked
    <2>2. h \in Nat
      BY <1>1, <2>1, SequenceIs
    <2> QED
      BY SMTT(40), <1>0, <1>1, <2>1, <2>2, SequenceIs
  <1>3. h > 1 /\ h \in 2..h /\ h \in 1..h /\ h - 1 \in 1..h /\ h - 1 \in 1..h - 1 /\ h - 1 # h
    BY <1>0, <1>2
  <1>4. /\ IsSequence(fr2) /\ Len(fr2) = h - 1
        /\ \A j \in 1..h - 1 : fr2[j] = fr[j]
    <2>1. fr2 = Front(fr)
      BY <1>0
    <2> QED
      BY <1>1, <1>2, <2>1, FrontIs
  <1>5. /\ fr[h].parent \in Inner(q) /\ q.parents[id] = fr[h - 1].parent /\ p = fr[h - 1].parent
        /\ fr[h - 1].met > 0 /\ it[id] = fr[h - 1].items[fr[h - 1].met]
    <2>1. id = fr[h].parent[2] /\ p = q.parents[id]
      BY <1>0
    <2> QED
      BY <1>1, <1>3, <2>1 DEF Stacked
  <1>6. \A j \in 1..h :
          /\ fr[j] \in [parent : P, on : {fr[j].on}, items : Seq(Items), met : Nat]
          /\ fr[j].parent \in P /\ fr[j].items \in Seq(Items) /\ fr[j].met \in Nat
    <2>1. \A j \in 1..h : fr[j] \in [parent : P, on : {fr[j].on}, items : Seq(Items), met : Nat]
      BY <1>1 DEF Stacked
    <2> QED
      BY <2>1
  <1>7. id \in Ids(q) /\ id \in Nat /\ p \in P
    <2>1. id = fr[h].parent[2]
      BY <1>0
    <2>2. Ids(q) \subseteq Nat
      BY DEF Ids
    <2> QED
      BY <1>3, <1>5, <1>6, <2>1, <2>2 DEF Inner
  <1>8. HasAdded(q, P, p, id, q2)
    <2>1. q2 = add_to_selection_set(q, p, id)
      BY <1>0
    <2> QED
      BY <1>1, <1>7, <2>1, AddingIs
  <1>9. /\ q2.parents = q.parents /\ q2.selections = q.selections
        /\ Roots(q2) = Roots(q) /\ Inner(q2) = Inner(q) /\ Ids(q2) = Ids(q)
        /\ \A x \in P : x # p => q2.sets[x] = q.sets[x]
        /\ Len(q2.sets[p]) = Len(q.sets[p]) + 1
        /\ \A i \in 1..Len(q.sets[p]) : q2.sets[p][i] = q.sets[p][i]
        /\ q2.sets[p][Len(q.sets[p]) + 1] = id
    BY <1>8 DEF HasAdded
  <1>10. /\ \A x \in P : Len(q.sets[x]) \in Nat /\ Len(w[x]) \in Nat
         /\ q.sets \in [P -> Seq(Nat)] /\ w \in [P -> Seq(Items)]
    <2>1. q.sets \in [P -> Seq(Nat)] /\ w \in [P -> Seq(Items)]
      BY <1>1 DEF Recorded
    <2> QED
      BY <2>1
  <1>11. \A j \in 2..h : fr[j].parent[2] = id => j = h
    <2>1. ASSUME NEW j \in 2..h, fr[j].parent[2] = id
          PROVE  j = h
      <3>1. fr[j].parent \in Inner(q)
        BY <1>1 DEF Stacked
      <3>2. fr[j].parent = fr[h].parent
        <4>1. id = fr[h].parent[2]
          BY <1>0
        <4> QED
          BY <1>5, <2>1, <3>1, <4>1 DEF Inner
      <3> QED
        BY <1>1, <1>2, <1>3, <3>2 DEF Stacked
    <2> QED
      BY <2>1
  <1>12. PICK a \in Nat : a = Len(q.sets[p])
    BY <1>7, <1>10
  <1>13. Recorded(q2, it, mf, w)
    <2>1. /\ q2 = [fragments |-> q2.fragments, operations |-> q2.operations,
                   selections |-> q2.selections, parents |-> q2.parents, sets |-> q2.sets]
          /\ q2.fragments = q.fragments /\ q2.operations = q.operations
          /\ q2.sets \in [P -> Seq(Nat)]
      BY <1>8 DEF HasAdded
    <2> QED
      BY <1>1, <1>9, <2>1, Zenon DEF Recorded
  <1>14. Rooted(q2, mf)
    BY <1>1, <1>9, Zenon DEF Rooted
  <1>15. Placed(q2, fr2)
    <2>1. ASSUME NEW x \in P, NEW i \in 1..Len(q.sets[x])
          PROVE  /\ q.sets[x][i] \in Ids(q) /\ q.parents[q.sets[x][i]] = x
                 /\ \A j \in 2..h - 1 : fr2[j].parent[2] # q.sets[x][i]
                 /\ q.sets[x][i] # id
                 /\ \A l \in 1..Len(q.sets[x]) : q.sets[x][l] = q.sets[x][i] => l = i
      <3>1. /\ q.sets[x][i] \in Ids(q) /\ q.parents[q.sets[x][i]] = x
            /\ \A j \in 2..h : fr[j].parent[2] # q.sets[x][i]
            /\ \A l \in 1..Len(q.sets[x]) : q.sets[x][l] = q.sets[x][i] => l = i
        BY <1>1 DEF Placed
      <3>2. \A j \in 2..h - 1 : j \in 2..h /\ j \in 1..h - 1
        BY <1>2, <1>3
      <3>3. fr[h].parent[2] = id
        BY <1>0
      <3>4. q.sets[x][i] # id
        BY <1>3, <3>1, <3>3
      <3> QED
        BY <1>4, <3>1, <3>2, <3>4
    <2>2. \A j \in 2..h - 1 : fr2[j].parent[2] # id
      <3>1. \A j \in 2..h - 1 : j \in 2..h /\ j \in 1..h - 1 /\ j # h
        BY <1>2, <1>3
      <3> QED
        BY <1>4, <1>11, <3>1
    <2>3. ASSUME NEW x \in P, NEW i \in 1..Len(q2.sets[x])
          PROVE  /\ q2.sets[x][i] \in Ids(q2) /\ q2.parents[q2.sets[x][i]] = x
                 /\ \A j \in 2..Len(fr2) : fr2[j].parent[2] # q2.sets[x][i]
                 /\ \A l \in 1..Len(q2.sets[x]) : q2.sets[x][l] = q2.sets[x][i] => l = i
      <3>1. CASE x # p
        <4>1. q2.sets[x] = q.sets[x]
          BY <1>9, <3>1
        <4>2. i \in 1..Len(q.sets[x])
          BY <4>1
        <4>3. /\ q.sets[x][i] \in Ids(q) /\ q.parents[q.sets[x][i]] = x
              /\ \A j \in 2..h - 1 : fr2[j].parent[2] # q.sets[x][i]
              /\ \A l \in 1..Len(q.sets[x]) : q.sets[x][l] = q.sets[x][i] => l = i
          BY <2>1, <4>2
        <4>4. Ids(q2) = Ids(q) /\ q2.parents = q.parents /\ Len(fr2) = h - 1
          BY <1>4, <1>9
        <4> QED
          BY <4>1, <4>3, <4>4, Zenon
      <3>2. CASE x = p
        <4>1. /\ Len(q2.sets[p]) = a + 1 /\ q2.sets[p][a + 1] = id
              /\ \A l \in 1..a : q2.sets[p][l] = q.sets[p][l] /\ q2.sets[p][l] # id
          BY <1>7, <1>9, <1>12, <2>1
        <4>2. \A l \in 1..a + 1 : l \in 1..a \/ l = a + 1
          OBVIOUS
        <4>3. CASE i \in 1..a
          <5>1. /\ q.sets[p][i] \in Ids(q) /\ q.parents[q.sets[p][i]] = p
                /\ \A j \in 2..h - 1 : fr2[j].parent[2] # q.sets[p][i]
                /\ \A l \in 1..a : q.sets[p][l] = q.sets[p][i] => l = i
            BY <1>7, <1>12, <2>1, <4>3
          <5>2. \A l \in 1..a + 1 : q2.sets[p][l] = q2.sets[p][i] => l = i
            BY <4>1, <4>2, <4>3, <5>1
          <5> QED
            BY <1>4, <1>9, <3>2, <4>1, <4>3, <5>1, <5>2
        <4>4. CASE i = a + 1
          <5>1. \A l \in 1..a + 1 : q2.sets[p][l] = q2.sets[p][i] => l = i
            BY <4>1, <4>2, <4>4
          <5>2. q.parents[id] = p
            BY <1>5
          <5> QED
            BY <1>4, <1>7, <1>9, <2>2, <3>2, <4>1, <4>4, <5>1, <5>2
        <4>5. i \in 1..a \/ i = a + 1
          BY <3>2, <4>1, <4>2
        <4> QED
          BY <4>3, <4>4, <4>5
      <3> QED
        BY <3>1, <3>2
    <2>4. ASSUME NEW y \in Ids(q2)
          PROVE  \/ \E i \in 1..Len(q2.sets[q2.parents[y]]) : q2.sets[q2.parents[y]][i] = y
                 \/ \E j \in 2..Len(fr2) : fr2[j].parent[2] = y
      <3>1. q2.parents[y] = q.parents[y] /\ y \in Ids(q) /\ q.parents[y] \in P
        BY <1>1, <1>9 DEF Rooted
      <3>2. CASE \E i \in 1..Len(q.sets[q.parents[y]]) : q.sets[q.parents[y]][i] = y
        <4>1. PICK i \in 1..Len(q.sets[q.parents[y]]) : q.sets[q.parents[y]][i] = y
          BY <3>2
        <4>2. CASE q.parents[y] = p
          <5>1. i \in 1..a /\ i \in 1..a + 1 /\ Len(q2.sets[p]) = a + 1
            BY <1>9, <1>12, <4>1, <4>2
          <5>2. q2.sets[p][i] = y
            BY <1>9, <1>12, <4>1, <4>2, <5>1
          <5> QED
            BY <3>1, <4>2, <5>1, <5>2
        <4>3. CASE q.parents[y] # p
          BY <1>9, <3>1, <4>1, <4>3
        <4> QED
          BY <4>2, <4>3
      <3>3. CASE \E j \in 2..h : fr[j].parent[2] = y
        <4>1. PICK j \in 2..h : fr[j].parent[2] = y
          BY <3>3
        <4>2. CASE j = h
          <5>1. y = id /\ q2.parents[y] = p
            <6>1. fr[h].parent[2] = id
              BY <1>0
            <6> QED
              BY <1>5, <3>1, <4>1, <4>2, <6>1
          <5>2. a + 1 \in 1..Len(q2.sets[p])
            BY <1>9, <1>12
          <5> QED
            BY <1>9, <1>12, <5>1, <5>2
        <4>3. CASE j # h
          <5>1. j \in 1..h - 1 /\ j \in 2..h - 1
            BY <1>2, <4>1, <4>3
          <5>2. fr2[j].parent[2] = y /\ j \in 2..Len(fr2)
            BY <1>4, <4>1, <5>1
          <5> QED
            BY <5>2
        <4> QED
          BY <4>2, <4>3
      <3> QED
        BY <1>1, <3>1, <3>2, <3>3 DEF Placed
    <2> QED
      BY <1>1, <1>9, <2>3, <2>4, Zenon DEF Placed
  <1>16. Stacked(q2, fr2, it, mf)
    <2>1. \A j \in 1..h - 1 : j \in 1..h
      BY <1>2
    <2>2. \A j \in 2..h - 1 : j \in 2..h /\ j \in 1..h - 1 /\ j - 1 \in 1..h - 1
      BY <1>2
    <2>3. 1 \in 1..h - 1 /\ fr2[1] = fr[1]
      BY <1>2, <1>3, <1>4
    <2>4. fr[1].parent \in Roots(q)
      BY <1>1, <1>2 DEF Stacked
    <2>5. \A j \in 1..Len(fr2) :
            fr2[j] \in [parent : P, on : {fr2[j].on}, items : Seq(Items), met : Nat]
      BY <1>4, <1>6, <2>1
    <2>6. ASSUME NEW j \in 2..Len(fr2)
          PROVE  /\ fr2[j].parent \in Inner(q)
                 /\ q.parents[fr2[j].parent[2]] = fr2[j - 1].parent
                 /\ fr2[j - 1].met > 0
                 /\ it[fr2[j].parent[2]] = fr2[j - 1].items[fr2[j - 1].met]
                 /\ mf[fr2[j].parent[2]] = fr2[1].parent
      <3>1. j \in 2..h /\ fr2[j] = fr[j] /\ fr2[j - 1] = fr[j - 1]
        BY <1>4, <2>2
      <3> QED
        BY <1>1, <2>3, <3>1 DEF Stacked
    <2>7. \A j, l \in 1..Len(fr2) : fr2[j].parent = fr2[l].parent => j = l
      <3>1. \A j, l \in 1..h : fr[j].parent = fr[l].parent => j = l
        BY <1>1 DEF Stacked
      <3> QED
        BY <1>4, <2>1, <3>1
    <2> QED
      BY <1>1, <1>4, <1>9, <2>3, <2>4, <2>5, <2>6, <2>7 DEF Stacked
  <1>17. Filled(q2, fr2, it, w)
    <2>1. /\ fr[h - 1].met <= Len(fr[h - 1].items)
          /\ Len(q.sets[p]) + 1 + Len(fr[h - 1].items) - fr[h - 1].met = Len(w[p])
          /\ \A m \in 1..Len(fr[h - 1].items) :
               fr[h - 1].items[m] = w[p][Len(w[p]) - Len(fr[h - 1].items) + m]
      <3>1. h - 1 < h /\ h - 1 \in 1..h
        BY <1>2, <1>3
      <3> QED
        BY <1>1, <1>5, <3>1 DEF Filled
    <2>2. PICK b \in Nat, c \in Nat, d \in Nat :
            b = Len(fr[h - 1].items) /\ c = Len(w[p]) /\ d = fr[h - 1].met
      BY <1>3, <1>6, <1>7, <1>10
    <2>3. d <= b /\ a + 1 + b - d = c /\ d > 0
      BY <1>5, <1>12, <2>1, <2>2
    <2>4. d \in 1..b /\ c - b + d = a + 1 /\ a + 1 <= c
      BY <2>3
    <2>5. it[id] = w[p][a + 1]
      BY <1>5, <2>1, <2>2, <2>4
    <2>6. ASSUME NEW x \in P
          PROVE  /\ Len(q2.sets[x]) <= Len(w[x])
                 /\ \A i \in 1..Len(q2.sets[x]) : it[q2.sets[x][i]] = w[x][i]
                 /\ (\A j \in 1..Len(fr2) : fr2[j].parent # x) => Len(q2.sets[x]) = Len(w[x])
      <3>1. /\ Len(q.sets[x]) <= Len(w[x])
            /\ \A i \in 1..Len(q.sets[x]) : it[q.sets[x][i]] = w[x][i]
            /\ (\A j \in 1..Len(fr) : fr[j].parent # x) => Len(q.sets[x]) = Len(w[x])
        BY <1>1 DEF Filled
      <3>2. CASE x = p
        <4>1. \A i \in 1..a + 1 : i \in 1..a \/ i = a + 1
          OBVIOUS
        <4>2. \A i \in 1..Len(q2.sets[p]) : it[q2.sets[p][i]] = w[p][i]
          BY <1>9, <1>12, <2>5, <3>1, <3>2, <4>1
        <4>3. h - 1 \in 1..Len(fr2) /\ fr2[h - 1].parent = p
          BY <1>3, <1>4, <1>5
        <4>4. Len(q2.sets[p]) <= Len(w[p])
          BY <1>9, <1>12, <2>2, <2>4
        <4> QED
          BY <3>2, <4>2, <4>3, <4>4
      <3>3. CASE x # p
        <4>1. q2.sets[x] = q.sets[x]
          BY <1>9, <3>3
        <4>2. ASSUME \A j \in 1..Len(fr2) : fr2[j].parent # x
              PROVE  Len(q.sets[x]) = Len(w[x])
          <5>1. \A j \in 1..h : j \in 1..h - 1 \/ j = h
            BY <1>2
          <5>2. CASE fr[h].parent = x
            <6>1. Len(q.sets[x]) + (IF h < h THEN 1 ELSE 0) + Len(fr[h].items) - fr[h].met = Len(w[x])
              BY <1>1, <1>3, <5>2 DEF Filled
            <6>2. fr[h].met = Len(fr[h].items)
              BY <1>0
            <6>3. PICK e \in Nat, f \in Nat, g \in Nat :
                    e = fr[h].met /\ f = Len(q.sets[x]) /\ g = Len(w[x])
              BY <1>3, <1>6, <1>10
            <6>4. f + (IF h < h THEN 1 ELSE 0) + e - e = g
              BY <6>1, <6>2, <6>3
            <6>5. f = g
              BY <1>2, <6>4
            <6> QED
              BY <6>3, <6>5
          <5>3. CASE fr[h].parent # x
            <6>1. \A j \in 1..Len(fr) : fr[j].parent # x
              BY <1>1, <1>4, <4>2, <5>1, <5>3
            <6> QED
              BY <3>1, <6>1
          <5> QED
            BY <5>2, <5>3
        <4> QED
          BY <3>1, <4>1, <4>2
      <3> QED
        BY <3>2, <3>3
    <2>7. ASSUME NEW j \in 1..Len(fr2), NEW x, x = fr2[j].parent
          PROVE  /\ fr2[j].met <= Len(fr2[j].items)
                 /\ Len(q2.sets[x]) + (IF j < Len(fr2) THEN 1 ELSE 0) + Len(fr2[j].items) - fr2[j].met
                      = Len(w[x])
                 /\ \A m \in 1..Len(fr2[j].items) :
                      fr2[j].items[m] = w[x][Len(w[x]) - Len(fr2[j].items) + m]
      <3>1. j \in 1..h - 1 /\ j \in 1..h /\ fr2[j] = fr[j] /\ j < h /\ x = fr[j].parent
        BY <1>2, <1>4, <2>7
      <3>2. CASE j = h - 1
        <4>1. x = p /\ ~(j < Len(fr2))
          BY <1>2, <1>4, <1>5, <3>1, <3>2
        <4>2. Len(q2.sets[p]) = a + 1
          BY <1>9, <1>12
        <4>3. d <= b /\ a + 1 + 0 + b - d = c
          BY <2>3
        <4> QED
          BY <2>1, <2>2, <3>1, <3>2, <4>1, <4>2, <4>3
      <3>3. CASE j # h - 1
        <4>1. j < Len(fr2)
          BY <1>2, <1>4, <3>1, <3>3
        <4>2. /\ fr[j].met <= Len(fr[j].items)
              /\ Len(q.sets[x]) + (IF j < h THEN 1 ELSE 0) + Len(fr[j].items) - fr[j].met = Len(w[x])
              /\ \A m \in 1..Len(fr[j].items) :
                   fr[j].items[m] = w[x][Len(w[x]) - Len(fr[j].items) + m]
          BY <1>1, <3>1 DEF Filled
        <4>3. x # p
          <5>1. \A l, m \in 1..h : fr[l].parent = fr[m].parent => l = m
            BY <1>1 DEF Stacked
          <5> QED
            BY <1>3, <1>5, <3>1, <3>3, <5>1
        <4>4. q2.sets[x] = q.sets[x]
          BY <1>6, <1>9, <3>1, <4>3
        <4> QED
          BY <3>1, <4>1, <4>2, <4>4
      <3> QED
        BY <3>2, <3>3
    <2>8. \A j \in 1..Len(fr2) :
            LET x == fr2[j].parent IN
            /\ fr2[j].met <= Len(fr2[j].items)
            /\ Len(q2.sets[x]) + (IF j < Len(fr2) THEN 1 ELSE 0) + Len(fr2[j].items) - fr2[j].met
                 = Len(w[x])
            /\ \A m \in 1..Len(fr2[j].items) :
                 fr2[j].items[m] = w[x][Len(w[x]) - Len(fr2[j].items) + m]
      BY <2>7, Zenon
    <2>9. Roots(q2) \cup Inner(q2) = P
      BY <1>1, <1>9
    <2> QED
      BY <2>6, <2>8, <2>9, Zenon DEF Filled
  <1> QED
    BY <1>13, <1>14, <1>15, <1>16, <1>17 DEF Building

------------------------------------------------------------------------------
(* What is written under a name.                                             *)

LEMMA DocumentIs ==
    ASSUME document \in Written
    PROVE  /\ IsSequence(document) /\ Len(document) \in Nat
           /\ DOMAIN document = 1..Len(document)
           /\ \A i \in 1..Len(document) :
                /\ document[i][1] \in {"Fragment", "Operation"}
                /\ Body(document[i]).selection_set \in Seq(Items)
                /\ Body(document[i]).selection_set # <<>>
  <1>1. IsSequence(document)
    BY WrittenAssumption DEF IsSequence
  <1>2. Len(document) \in Nat /\ DOMAIN document = 1..Len(document)
    BY <1>1, SequenceIs
  <1>3. \A i \in DOMAIN document :
          /\ document[i][1] \in {"Fragment", "Operation"}
          /\ Body(document[i]).selection_set \in Seq(Items) \ {<<>>}
    BY WrittenAssumption, Zenon
  <1> QED
    BY <1>1, <1>2, <1>3

\* The items under a name are those of the definitions of the name, one after the other.
LEMMA UnderIs ==
    ASSUME document \in Written, NEW kind, NEW name
    PROVE  /\ \A i \in 0..Len(document) : ItemsUnder(kind, name)[i] \in Seq(Items)
           /\ ItemsUnder(kind, name)[0] = <<>>
           /\ \A i \in 1..Len(document) :
                ItemsUnder(kind, name)[i] =
                  ItemsUnder(kind, name)[i - 1] \o ItemsFor(document[i], kind, name)
  <1> DEFINE part(i) == IF i \in 1..Len(document) THEN ItemsFor(document[i], kind, name) ELSE <<>>
             step == [x \in Nat \X Seq(Items) |-> x[2] \o part(x[1])]
             Under(f) == f = [i \in 0..Len(document) |->
                                IF i = 0 THEN <<>>
                                ELSE f[i - 1] \o ItemsFor(document[i], kind, name)]
             J == ItemsUnder(kind, name)
  <1>1. PICK N \in Nat : N = Len(document)
    BY DocumentIs
  <1>2. <<>> \in Seq(Items)
    OBVIOUS
  <1>3. \A i \in 1..N : ItemsFor(document[i], kind, name) \in Seq(Items)
    BY <1>1, <1>2, DocumentIs DEF ItemsFor
  <1>4. /\ \A i \in Nat : part(i) \in Seq(Items)
        /\ \A i \in 1..N : part(i) = ItemsFor(document[i], kind, name)
    BY <1>1, <1>2, <1>3
  <1>5. /\ step \in [Nat \X Seq(Items) -> Seq(Items)]
        /\ \A i \in 1..N, u \in Seq(Items) :
             step[<<i, u>>] = u \o ItemsFor(document[i], kind, name)
    <2> HIDE DEF part
    <2>1. \A i \in Nat, u \in Seq(Items) : u \o part(i) \in Seq(Items)
      BY <1>4, ConcatProperties
    <2>2. step \in [Nat \X Seq(Items) -> Seq(Items)]
      BY <2>1
    <2>3. ASSUME NEW i \in 1..N, NEW u \in Seq(Items)
          PROVE  step[<<i, u>>] = u \o ItemsFor(document[i], kind, name)
      <3>1. i \in Nat /\ <<i, u>> \in Nat \X Seq(Items) /\ <<i, u>>[1] = i /\ <<i, u>>[2] = u
        OBVIOUS
      <3>2. step[<<i, u>>] = u \o part(i)
        BY <3>1
      <3>3. part(i) = ItemsFor(document[i], kind, name)
        BY <1>4
      <3> HIDE DEF step
      <3> QED
        BY <3>2, <3>3
    <2> QED
      BY <2>2, <2>3
  <1> HIDE DEF step, part
  <1>6. PICK f : Steps(f, <<>>, step, N, Seq(Items))
    BY <1>2, <1>5, StepsExist
  <1>7. /\ f \in [0..N -> Seq(Items)] /\ f[0] = <<>>
        /\ \A i \in 1..N : f[i] = f[i - 1] \o ItemsFor(document[i], kind, name)
    <2>1. \A i \in 1..N : i - 1 \in 0..N
      OBVIOUS
    <2> QED
      BY <1>5, <1>6, <2>1 DEF Steps
  <1>8. Under(f)
    <2>1. \A i \in 0..N : i # 0 => i \in 1..N
      OBVIOUS
    <2>2. \A i \in 0..N : f[i] = IF i = 0 THEN <<>>
                                 ELSE f[i - 1] \o ItemsFor(document[i], kind, name)
      BY <1>7, <2>1, Zenon
    <2>3. f = [i \in 0..N |-> f[i]]
      BY <1>7
    <2> QED
      BY <1>1, <2>2, <2>3, Zenon
  <1>9. Under(J)
    BY <1>8 DEF ItemsUnder
  <1>10. /\ J[0] = <<>>
         /\ \A i \in 1..N : J[i] = J[i - 1] \o ItemsFor(document[i], kind, name)
    <2> DEFINE body(i) == IF i = 0 THEN <<>> ELSE J[i - 1] \o ItemsFor(document[i], kind, name)
    <2>1. J = [i \in 0..N |-> body(i)]
      BY <1>1, <1>9
    <2>2. 0 \in 0..N /\ \A i \in 1..N : i \in 0..N /\ i # 0
      OBVIOUS
    <2> HIDE DEF J, body
    <2>3. \A i \in 0..N : J[i] = body(i)
      BY <2>1
    <2> QED
      BY <2>2, <2>3 DEF body
  <1> HIDE DEF J
  <1>11. \A i \in 1..N : J[i - 1] \in Seq(Items) => J[i] \in Seq(Items)
    BY <1>3, <1>10, ConcatProperties
  <1>12. \A i \in 0..N : J[i] \in Seq(Items)
    BY <1>2, <1>10, <1>11, StepsStay
  <1> QED
    BY <1>1, <1>10, <1>12 DEF J

------------------------------------------------------------------------------
(* A definition begins, and its call returns.                                *)

\* A call begins for a root, with items more written for it.
Begins(q, it, mf, w, p, on, items, P, fr2, w2) ==
  /\ Building(q, <<>>, it, mf, w) /\ p \in Roots(q) /\ items \in Seq(Items)
  /\ P = Roots(q) \cup Inner(q)
  /\ fr2 = <<Frame(p, on, items)>> /\ w2 = [x \in P |-> w2[x]]
  /\ w2[p] = w[p] \o items /\ \A x \in P : x # p => w2[x] = w[x]

LEMMA BeginKeeps ==
    ASSUME NEW q, NEW it, NEW mf, NEW w, NEW p, NEW on, NEW items, NEW P, NEW fr2, NEW w2,
           Begins(q, it, mf, w, p, on, items, P, fr2, w2)
    PROVE  Building(q, fr2, it, mf, w2)
  <1>0. SUFFICES
          ASSUME Building(q, <<>>, it, mf, w), p \in Roots(q), items \in Seq(Items),
                 P = Roots(q) \cup Inner(q), fr2 = <<Frame(p, on, items)>>, w2 = [x \in P |-> w2[x]],
                 w2[p] = w[p] \o items, \A x \in P : x # p => w2[x] = w[x]
          PROVE  Building(q, fr2, it, mf, w2)
    BY DEF Begins
  <1>1. /\ Recorded(q, it, mf, w) /\ Rooted(q, mf) /\ Placed(q, <<>>)
        /\ Stacked(q, <<>>, it, mf) /\ Filled(q, <<>>, it, w)
        /\ P = Roots(q) \cup Inner(q) /\ p \in Roots(q) /\ p \in P
    BY <1>0 DEF Building
  <1>2. /\ Len(fr2) = 1 /\ fr2[1].parent = p /\ fr2[1].items = items /\ fr2[1].met = 0
        /\ fr2[1] \in [parent : P, on : {fr2[1].on}, items : Seq(Items), met : Nat]
        /\ IsSequence(fr2)
    <2>1. fr2[1] = [parent |-> p, on |-> on, items |-> items, met |-> 0] /\ Len(fr2) = 1
      BY <1>0 DEF Frame
    <2>2. items \in Seq(Items)
      BY <1>0
    <2>3. IsSequence(fr2)
      BY <1>0 DEF IsSequence
    <2> QED
      BY <1>1, <2>1, <2>2, <2>3
  <1>3. w \in [P -> Seq(Items)] /\ q.sets \in [P -> Seq(Nat)]
    BY <1>1 DEF Recorded
  <1>4. PICK a \in Nat, b \in Nat, c \in Nat :
          a = Len(q.sets[p]) /\ b = Len(items) /\ c = Len(w[p])
    <2>1. items \in Seq(Items)
      BY <1>0
    <2>2. Len(q.sets[p]) \in Nat /\ Len(items) \in Nat /\ Len(w[p]) \in Nat
      BY <1>1, <1>3, <2>1
    <2> QED
      BY <2>2, Zenon
  <1>5. /\ Len(q.sets[p]) = c /\ \A i \in 1..c : it[q.sets[p][i]] = w[p][i]
        /\ \A x \in P : /\ Len(q.sets[x]) = Len(w[x])
                        /\ \A i \in 1..Len(q.sets[x]) : it[q.sets[x][i]] = w[x][i]
    BY <1>1, <1>4 DEF Filled
  <1>6. /\ w2[p] \in Seq(Items) /\ Len(w2[p]) = c + b
        /\ \A i \in 1..c : w2[p][i] = w[p][i]
        /\ \A m \in 1..b : w2[p][c + m] = items[m]
    <2>1. w[p] \in Seq(Items) /\ items \in Seq(Items) /\ w2[p] = w[p] \o items
      BY <1>0, <1>1, <1>3
    <2>2. \A i \in 1..c : i \in 1..c + b /\ i <= c
      OBVIOUS
    <2>3. \A m \in 1..b : c + m \in 1..c + b /\ ~(c + m <= c) /\ c + m - c = m
      OBVIOUS
    <2> QED
      BY <1>4, <2>1, <2>2, <2>3, ConcatProperties
  <1>7. \A x \in P : x # p => w2[x] = w[x]
    BY <1>0
  <1>8. Recorded(q, it, mf, w2)
    <2>1. \A x \in P : w2[x] \in Seq(Items)
      BY <1>3, <1>6, <1>7
    <2>2. w2 = [x \in P |-> w2[x]]
      BY <1>0
    <2> QED
      BY <1>1, <2>1, <2>2 DEF Recorded
  <1>9. Placed(q, fr2)
    BY <1>1, <1>2 DEF Placed
  <1>10. Stacked(q, fr2, it, mf)
    BY <1>1, <1>2 DEF Stacked
  <1>11. Filled(q, fr2, it, w2)
    <2>1. ASSUME NEW x \in P
          PROVE  /\ Len(q.sets[x]) <= Len(w2[x])
                 /\ \A i \in 1..Len(q.sets[x]) : it[q.sets[x][i]] = w2[x][i]
                 /\ (\A j \in 1..Len(fr2) : fr2[j].parent # x) => Len(q.sets[x]) = Len(w2[x])
      <3>1. CASE x = p
        BY <1>2, <1>4, <1>5, <1>6, <3>1
      <3>2. CASE x # p
        <4>1. Len(w[x]) \in Nat
          BY <1>3
        <4> QED
          BY <1>5, <1>7, <3>2, <4>1
      <3> QED
        BY <3>1, <3>2
    <2>2. ASSUME NEW j \in 1..Len(fr2), NEW x, x = fr2[j].parent
          PROVE  /\ fr2[j].met <= Len(fr2[j].items)
                 /\ Len(q.sets[x]) + (IF j < Len(fr2) THEN 1 ELSE 0) + Len(fr2[j].items) - fr2[j].met
                      = Len(w2[x])
                 /\ \A m \in 1..Len(fr2[j].items) :
                      fr2[j].items[m] = w2[x][Len(w2[x]) - Len(fr2[j].items) + m]
      <3>1. j = 1 /\ x = p
        BY <1>2, <2>2
      <3>2. 0 <= b /\ c + 0 + b - 0 = c + b /\ ~(1 < 1) /\ \A m \in 1..b : c + b - b + m = c + m
        OBVIOUS
      <3>3. /\ fr2[j].met <= Len(fr2[j].items)
            /\ Len(q.sets[x]) + (IF j < Len(fr2) THEN 1 ELSE 0) + Len(fr2[j].items) - fr2[j].met
                 = Len(w2[x])
        BY <1>2, <1>4, <1>5, <1>6, <3>1, <3>2
      <3>4. \A m \in 1..Len(fr2[j].items) :
              fr2[j].items[m] = w2[x][Len(w2[x]) - Len(fr2[j].items) + m]
        <4>1. \A m \in 1..b : items[m] = w2[p][c + b - b + m]
          BY <1>6, <3>2
        <4>2. fr2[j].items = items /\ Len(items) = b /\ Len(w2[x]) = c + b /\ x = p
          BY <1>2, <1>4, <1>6, <3>1
        <4> QED
          BY <4>1, <4>2
      <3> QED
        BY <3>3, <3>4
    <2>3. \A j \in 1..Len(fr2) :
            LET x == fr2[j].parent IN
            /\ fr2[j].met <= Len(fr2[j].items)
            /\ Len(q.sets[x]) + (IF j < Len(fr2) THEN 1 ELSE 0) + Len(fr2[j].items) - fr2[j].met
                 = Len(w2[x])
            /\ \A m \in 1..Len(fr2[j].items) :
                 fr2[j].items[m] = w2[x][Len(w2[x]) - Len(fr2[j].items) + m]
      BY <2>2, Zenon
    <2> QED
      BY <1>1, <2>1, <2>3, Zenon DEF Filled
  <1> QED
    BY <1>1, <1>8, <1>9, <1>10, <1>11 DEF Building

LEMMA EndKeeps ==
    ASSUME NEW q, NEW fr, NEW it, NEW mf, NEW w,
           Building(q, fr, it, mf, w), Len(fr) = 1, fr[1].met = Len(fr[1].items)
    PROVE  Building(q, <<>>, it, mf, w)
  <1>1. /\ Recorded(q, it, mf, w) /\ Rooted(q, mf) /\ Placed(q, fr)
        /\ Stacked(q, fr, it, mf) /\ Filled(q, fr, it, w)
    BY DEF Building
  <1>2. Placed(q, <<>>)
    BY <1>1 DEF Placed
  <1>3. Stacked(q, <<>>, it, mf)
    BY DEF Stacked, IsSequence
  <1>4. Filled(q, <<>>, it, w)
    <2>1. ASSUME NEW p \in Roots(q) \cup Inner(q), fr[1].parent = p
          PROVE  Len(q.sets[p]) = Len(w[p])
      <3>1. PICK a \in Nat, b \in Nat, c \in Nat :
              a = Len(q.sets[p]) /\ b = fr[1].met /\ c = Len(w[p])
        <4>1. q.sets[p] \in Seq(Nat) /\ w[p] \in Seq(Items)
          BY <1>1 DEF Recorded
        <4>2. fr[1] \in [parent : Roots(q) \cup Inner(q), on : {fr[1].on}, items : Seq(Items), met : Nat]
          BY <1>1 DEF Stacked
        <4>3. fr[1].met \in Nat
          BY <4>2
        <4> QED
          BY <4>1, <4>3
      <3>2. a + (IF 1 < 1 THEN 1 ELSE 0) + b - b = c
        BY <1>1, <2>1, <3>1 DEF Filled
      <3> QED
        BY <3>1, <3>2
    <2> QED
      BY <1>1, <2>1 DEF Filled
  <1> QED
    BY <1>1, <1>2, <1>3, <1>4 DEF Building

------------------------------------------------------------------------------
(* A selection is made.                                                      *)

\* r is q with one selection more, whatever the sets.
Larger(q, n, k, node, parent, r) ==
  /\ r.fragments = q.fragments /\ r.operations = q.operations
  /\ n \in Nat /\ DOMAIN q.selections = 1..n /\ DOMAIN r.selections = 1..n + 1
  /\ \A id \in 1..n : r.selections[id] = q.selections[id] /\ r.parents[id] = q.parents[id]
  /\ r.selections[n + 1] = node /\ r.parents[n + 1] = parent
  /\ Roots(r) = Roots(q) /\ Inner(r) = Inner(q) \cup {k}

LEMMA PushIsLarger ==
    ASSUME NEW q, NEW it, NEW mf, NEW w, NEW n, NEW k, NEW node, NEW parent, NEW q2
    PROVE  /\ Recorded(q, it, mf, w) /\ node[1] \in Kinds
           /\ n = Len(q.selections) /\ k = <<node[1], n + 1>>
           /\ q2 = push_selection(q, node, parent)
           => Larger(q, n, k, node, parent, q2)
  <1>1. SUFFICES
          ASSUME Recorded(q, it, mf, w), node[1] \in Kinds, n = Len(q.selections),
                 k = <<node[1], n + 1>>, q2 = push_selection(q, node, parent)
          PROVE  Larger(q, n, k, node, parent, q2)
    OBVIOUS
  <1>2. PICK P : P = Roots(q) \cup Inner(q)
    OBVIOUS
  <1>3. HasNoted(q, P, n, k, node, parent, q2)
    BY <1>1, <1>2, NotingIs
  <1>4. IsSequence(q.selections) /\ IsSequence(q2.selections) /\ Len(q2.selections) = n + 1
    BY <1>1, <1>3 DEF Recorded, HasNoted
  <1>5. DOMAIN q.selections = 1..n /\ DOMAIN q2.selections = 1..n + 1
    BY <1>1, <1>4, SequenceIs
  <1> QED
    BY <1>3, <1>5 DEF HasNoted, Larger

\* A call meets its next item and notes a selection, which is put in its parent's set.
Selects(q, fr, it, mf, w, node, n, h, P, k, q3, g, it2, mf2, w2) ==
  /\ Building(q, fr, it, mf, w) /\ fr # <<>> /\ fr[h].met < Len(fr[h].items)
  /\ node[1] \in Kinds
  /\ n = Len(q.selections) /\ h = Len(fr) /\ P = Roots(q) \cup Inner(q)
  /\ k = <<node[1], n + 1>>
  /\ q3 = add_to_selection_set(push_selection(q, node, fr[h].parent), fr[h].parent, n + 1)
  /\ g = Passing(fr)
  /\ it2 = Append(it, fr[h].items[fr[h].met + 1])
  /\ mf2 = Append(mf, fr[1].parent)
  /\ w2 = [p \in P \cup {k} |-> IF p = k THEN <<>> ELSE w[p]]

LEMMA SelectBuilds ==
    ASSUME NEW q, NEW fr, NEW it, NEW mf, NEW w, NEW node, NEW n, NEW h, NEW P, NEW k,
           NEW q3, NEW g, NEW it2, NEW mf2, NEW w2,
           Selects(q, fr, it, mf, w, node, n, h, P, k, q3, g, it2, mf2, w2)
    PROVE  Building(q3, g, it2, mf2, w2) /\ Larger(q, n, k, node, fr[h].parent, q3)
  <1>a. PICK q2 : q2 = push_selection(q, node, fr[h].parent)
    OBVIOUS
  <1>0. SUFFICES
          ASSUME Building(q, fr, it, mf, w), fr # <<>>, fr[h].met < Len(fr[h].items),
                 node[1] \in Kinds, n = Len(q.selections), h = Len(fr), P = Roots(q) \cup Inner(q),
                 k = <<node[1], n + 1>>, q2 = push_selection(q, node, fr[h].parent),
                 q3 = add_to_selection_set(q2, fr[h].parent, n + 1), g = Passing(fr),
                 it2 = Append(it, fr[h].items[fr[h].met + 1]),
                 mf2 = Append(mf, fr[1].parent),
                 w2 = [p \in P \cup {k} |-> IF p = k THEN <<>> ELSE w[p]]
          PROVE  Building(q3, g, it2, mf2, w2) /\ Larger(q, n, k, node, fr[h].parent, q3)
    BY <1>a DEF Selects
  <1>1. Recorded(q, it, mf, w) /\ Stacked(q, fr, it, mf)
    BY <1>0 DEF Building
  <1>2. PICK on : on = 0
    OBVIOUS
  <1>3. PICK fr2 : fr2 = Entering(fr, k, on, <<>>)
    OBVIOUS
  <1>4. HasEntered(P, fr, h, k, on, <<>>, fr2)
    BY <1>0, <1>1, <1>3, EnteringIs
  <1>5. Building(q2, fr2, it2, mf2, w2)
    <2>1. PICK items : items = <<>>
      OBVIOUS
    <2>2. items \in Seq(Items)
      BY <2>1
    <2>3. /\ w2 = [p \in P \cup {k} |-> IF p = k THEN items ELSE w[p]]
          /\ fr2 = Entering(fr, k, on, items)
      BY <1>0, <1>3, <2>1
    <2>4. Pushes(q, fr, it, mf, w, node, on, items, n, h, P, k, q2, fr2, it2, mf2, w2)
      BY <1>0, <2>2, <2>3 DEF Pushes
    <2> QED
      BY <2>4, PushKeeps
  <1>6. Larger(q, n, k, node, fr[h].parent, q2)
    BY <1>0, <1>1, PushIsLarger
  <1>7. /\ Len(fr2) = h + 1 /\ h \in Nat \ {0} /\ fr2[h + 1].met = 0 /\ fr2[h + 1].items = <<>>
        /\ fr2[h + 1].parent = k /\ Front(fr2) = Passing(fr)
    BY <1>4 DEF HasEntered
  <1>8. q2.parents[n + 1] = fr[h].parent /\ k[2] = n + 1
    BY <1>0, <1>6 DEF Larger
  <1>9. Building(q3, g, it2, mf2, w2)
    <2>1. PICK P2, x, m : P2 = Roots(q2) \cup Inner(q2) /\ x = h + 1 /\ m = n + 1
      OBVIOUS
    <2>2. x = Len(fr2) /\ x > 1 /\ fr2[x].met = Len(fr2[x].items) /\ m = fr2[x].parent[2]
      BY <1>7, <1>8, <2>1
    <2>3. g = Front(fr2) /\ q3 = add_to_selection_set(q2, fr[h].parent, m)
      BY <1>0, <1>7, <2>1
    <2>4. fr[h].parent = q2.parents[m]
      BY <1>8, <2>1
    <2>5. Pops(q2, fr2, it2, mf2, w2, x, P2, fr[h].parent, m, q3, g)
      BY <1>5, <2>1, <2>2, <2>3, <2>4 DEF Pops
    <2> QED
      BY <2>5, PopKeeps
  <1>10. Larger(q, n, k, node, fr[h].parent, q3)
    <2>1. PICK P2, x, m : P2 = Roots(q2) \cup Inner(q2) /\ x = fr[h].parent /\ m = n + 1
      OBVIOUS
    <2>2. Recorded(q2, it2, mf2, w2)
      BY <1>5 DEF Building
    <2>3. x \in P2 /\ m \in Nat
      <3>1. n \in Nat
        BY <1>6 DEF Larger
      <3>2. n + 1 \in Ids(q2)
        <4>1. IsSequence(q2.selections)
          BY <2>2 DEF Recorded
        <4> QED
          BY <1>6, <4>1, SequenceIs DEF Ids, Larger
      <3> QED
        BY <1>5, <1>8, <2>1, <3>1, <3>2 DEF Building, Rooted
    <2>4. q3 = add_to_selection_set(q2, x, m)
      BY <1>0, <2>1
    <2>5. HasAdded(q2, P2, x, m, q3)
      BY <2>1, <2>2, <2>3, <2>4, AddingIs
    <2> QED
      BY <1>6, <2>5 DEF Larger, HasAdded
  <1> QED
    BY <1>9, <1>10

------------------------------------------------------------------------------
(* What is written for every parent, and what the selections are made of,    *)
(* after a step.                                                             *)

LEMMA UnderStays ==
    ASSUME document' = document, NEW kind, NEW name
    PROVE  ItemsUnder(kind, name)' = ItemsUnder(kind, name)
  BY DEF ItemsUnder, ItemsFor

\* A selection is made of an item.
Grows(n, k, node, item) ==
  /\ Larger(query, n, k, node, frames[Len(frames)].parent, query')
  /\ node[1] \in Kinds /\ k = <<node[1], n + 1>>
  /\ document' = document /\ at' = at
  /\ item_of'[n + 1] = item /\ \A id \in 1..n : item_of'[id] = item_of[id]
  /\ frames # <<>> /\ frames' # <<>> /\ frames'[1].parent = frames[1].parent

LEMMA GrowsWants ==
    ASSUME Recorded(query, item_of, made_for, Wants),
           NEW n, NEW k, NEW node, NEW item, Grows(n, k, node, item),
           NEW P, P = Roots(query) \cup Inner(query)
    PROVE  Wants' = [p \in P \cup {k} |-> IF p = k THEN ItemsOf(k)' ELSE Wants[p]]
  <1>1. /\ query'.fragments = query.fragments /\ query'.operations = query.operations
        /\ n \in Nat /\ DOMAIN query.selections = 1..n /\ DOMAIN query'.selections = 1..n + 1
        /\ Roots(query') = Roots(query) /\ Inner(query') = Inner(query) \cup {k}
        /\ \A id \in 1..n : query'.selections[id] = query.selections[id]
        /\ query'.selections[n + 1] = node
        /\ k[1] \in Kinds
    BY DEF Grows, Larger
  <1>2. \A p : Met(p)' = Met(p)
    BY DEF Grows, Met
  <1>3. ASSUME NEW p \in Roots(query)
        PROVE  Want(p)' = Want(p)
    <2>1. document' = document
      BY DEF Grows
    <2>2. CASE p[1] = "Fragment"
      BY <1>1, <1>2, <2>1, <2>2, UnderStays DEF Want, RootWant, FirstOfItsName
    <2>3. CASE p[1] = "Operation"
      BY <1>1, <1>2, <2>1, <2>3, UnderStays DEF Want, RootWant, FirstOfItsName
    <2> QED
      BY <2>2, <2>3 DEF Roots
  <1>4. \A id \in 1..n : query.selections[id][1] \in Kinds /\ item_of'[id] = item_of[id]
    <2>1. IsSequence(query.selections)
      BY DEF Recorded
    <2>2. 1..n = Ids(query)
      BY <1>1, <2>1, SequenceIs DEF Ids
    <2> QED
      BY <2>2 DEF Recorded, Grows
  <1>5. ASSUME NEW p \in Inner(query)
        PROVE  Want(p)' = Want(p) /\ p # k
    <2>1. IsSequence(query.selections)
      BY DEF Recorded
    <2>2. PICK id \in 1..n : p = <<query.selections[id][1], id>>
      BY <1>1, <2>1, SequenceIs DEF Inner, Ids
    <2>3. p[1] \in Kinds /\ item_of'[p[2]] = item_of[p[2]] /\ p[2] # n + 1
      BY <1>1, <1>4, <2>2
    <2>4. k[2] = n + 1
      BY DEF Grows
    <2>5. Want(p) = ItemsOf(p) /\ Want(p)' = ItemsOf(p)'
      BY <2>3 DEF Want, Kinds
    <2>6. ItemsOf(p)' = ItemsOf(p)
      BY <2>3 DEF ItemsOf, Kinds
    <2> QED
      BY <2>3, <2>4, <2>5, <2>6
  <1>6. \A p \in Roots(query) : p # k
    BY <1>1 DEF Roots, Kinds
  <1>7. Want(k)' = ItemsOf(k)'
    BY <1>1 DEF Want, Kinds
  <1>8. Wants' = [p \in P \cup {k} |-> Want(p)']
    BY <1>1 DEF Wants
  <1>9. \A p \in P : Want(p)' = Want(p) /\ p # k
    BY <1>3, <1>5, <1>6
  <1>10. \A p \in P \cup {k} : Want(p)' = IF p = k THEN ItemsOf(k)' ELSE Wants[p]
    BY <1>7, <1>9 DEF Wants
  <1> QED
    BY <1>8, <1>10

\* The type inside a selection and what it is made of do not change.
LEMMA GrowsMade ==
    ASSUME Recorded(query, item_of, made_for, Wants), Rooted(query, made_for),
           NEW n, NEW k, NEW node, NEW item, Grows(n, k, node, item),
           Made, SpreadsKnown, MadeOf(n + 1, item)',
           node[1] = "FragmentSpread" => node[2] \in DOMAIN query.fragments
    PROVE  /\ Made' /\ SpreadsKnown'
           /\ \A p \in Inner(query) :
                p[1] \in {"Field", "InlineFragment"} => TypeInside(p)' = TypeInside(p)
  <1>1. /\ query'.fragments = query.fragments
        /\ n \in Nat /\ DOMAIN query.selections = 1..n /\ DOMAIN query'.selections = 1..n + 1
        /\ \A id \in 1..n : /\ query'.selections[id] = query.selections[id]
                            /\ query'.parents[id] = query.parents[id]
                            /\ item_of'[id] = item_of[id]
        /\ query'.selections[n + 1] = node /\ item_of'[n + 1] = item
    BY DEF Grows, Larger
  <1>2. Ids(query) = 1..n
    <2>1. IsSequence(query.selections)
      BY DEF Recorded
    <2> QED
      BY <1>1, <2>1, SequenceIs DEF Ids
  <1>3. \A p \in Inner(query) : p[2] \in 1..n
    BY <1>2 DEF Inner
  <1>4. ASSUME NEW p, p[2] \in 1..n
        PROVE  TypeInside(p)' = TypeInside(p)
    BY <1>1, <1>4 DEF TypeInside, FieldType, Node
  <1>5. \A id \in 1..n : query.parents[id][1] \in {"Field", "InlineFragment"}
                          => query.parents[id][2] \in 1..n
    BY <1>2, <1>3 DEF Rooted, Roots
  <1>6. ASSUME NEW id \in 1..n
        PROVE  MadeOf(id, item_of[id])'
    <2>1. MadeOf(id, item_of[id])
      BY <1>1 DEF Made
    <2>2. PICK p : p = query.parents[id]
      OBVIOUS
    <2>3. /\ query'.parents[id] = p
          /\ p[1] \in {"Field", "InlineFragment"} => query'.selections[p[2]] = query.selections[p[2]]
      BY <1>1, <1>5, <2>2
    <2>4. query'.selections[id] = query.selections[id] /\ item_of'[id] = item_of[id]
      BY <1>1
    <2>5. CASE query.selections[id][1] = "Field"
      <3>1. PICK t, f, i : t = TypeInside(p) /\ f = query.selections[id][2] /\ i = item_of[id]
        OBVIOUS
      <3>2. /\ i[1] = "Field" /\ i[2].name = f.field_id[2] /\ i[2].name # TYPENAME_FIELD
            /\ f.alias = i[2].alias
            /\ p[1] \in {"Field", "InlineFragment"} => f.field_id[1] = t
        BY <2>1, <2>2, <2>5, <3>1 DEF MadeOf, Node
      <3>3. p[1] \in {"Field", "InlineFragment"} =>
              t = IF p[1] = "Field"
                  THEN FieldsOf[query'.selections[p[2]][2].field_id[1]][query'.selections[p[2]][2].field_id[2]].type
                  ELSE query'.selections[p[2]][2].type_id
        BY <2>3, <3>1 DEF TypeInside, FieldType, Node
      <3> QED
        BY <2>3, <2>4, <2>5, <3>1, <3>2, <3>3 DEF MadeOf, Node, TypeInside, FieldType
    <2>6. CASE query.selections[id][1] = "Typename"
      BY <2>1, <2>4, <2>6 DEF MadeOf, Node
    <2>7. CASE query.selections[id][1] = "InlineFragment"
      BY <2>1, <2>4, <2>7 DEF MadeOf, Node
    <2>8. CASE query.selections[id][1] = "FragmentSpread"
      BY <1>1, <2>1, <2>4, <2>8 DEF MadeOf, Node, FirstOfItsName
    <2> QED
      BY <1>2, <2>5, <2>6, <2>7, <2>8 DEF Recorded, Kinds
  <1>7. \A id \in 1..n + 1 : id \in 1..n \/ id = n + 1
    BY <1>1
  <1>8. Made'
    BY <1>1, <1>6, <1>7 DEF Made
  <1>9. SpreadsKnown'
    BY <1>1, <1>7 DEF SpreadsKnown, Node
  <1> QED
    BY <1>3, <1>4, <1>8, <1>9

\* The calls under way stay what they are for.
LEMMA GrowsCalling ==
    ASSUME Calling, NEW h, h = Len(frames), h \in Nat \ {0},
           document' = document, at' = at, query'.fragments = query.fragments,
           query'.operations = query.operations,
           \A j \in 1..h : /\ frames'[j].parent = frames[j].parent /\ frames'[j].on = frames[j].on
                           /\ frames'[j].items = frames[j].items,
           Len(frames') \in {h, h + 1}, frames # <<>>,
           \A j \in 2..h : TypeInside(frames[j].parent)' = TypeInside(frames[j].parent),
           Len(frames') = h + 1 => Inside(frames[h + 1])'
    PROVE  Calling'
  <1>1. Defining'
    <2>1. PICK d, p, named :
            /\ d = document[at] /\ p = frames[1].parent
            /\ named = IF d[1] = "Fragment" THEN query.fragments ELSE query.operations
      OBVIOUS
    <2>2. /\ at <= Len(document)
          /\ p[1] = d[1] /\ p[2] \in Found(named, NameOf(d))
          /\ frames[1].items = Body(d).selection_set
      BY <2>1 DEF Calling, Defining
    <2>3. /\ d = document'[at'] /\ p = frames'[1].parent
          /\ named = IF d[1] = "Fragment" THEN query'.fragments ELSE query'.operations
          /\ at' <= Len(document') /\ frames'[1].items = Body(d).selection_set
      BY <2>1, <2>2
    <2> QED
      BY <2>2, <2>3 DEF Defining
  <1>2. ASSUME NEW j \in 2..Len(frames')
        PROVE  Inside(frames[j])'
    <2>1. j \in 2..h \/ (Len(frames') = h + 1 /\ j = h + 1)
      OBVIOUS
    <2>2. CASE j \in 2..h
      <3>1. j \in 1..h
        BY <2>2
      <3>2. frames[j].parent[1] \in {"Field", "InlineFragment"} /\ frames[j].on = TypeInside(frames[j].parent)
        BY <2>2 DEF Calling, Inside
      <3> QED
        BY <2>2, <3>1, <3>2 DEF Inside
    <2> QED
      BY <2>1, <2>2 DEF Inside
  <1> QED
    BY <1>1, <1>2 DEF Calling

------------------------------------------------------------------------------
(* The steps of the resolution.                                              *)

\* The call that meets an item is the last.
LEMMA MeetsIs ==
    ASSUME Working, NEW kind, HasItem(kind), NEW h, h = Len(frames)
    PROVE  /\ frames # <<>> /\ Top = frames[h] /\ frames[h].met < Len(frames[h].items)
           /\ Item = frames[h].items[frames[h].met + 1]
           /\ h \in Nat \ {0} /\ IsSequence(frames)
           /\ Item \in Items
  <1>1. IsSequence(frames) /\ frames # <<>>
    BY DEF Working, Building, Stacked, HasItem
  <1>2. Top = frames[h] /\ h \in Nat \ {0}
    BY <1>1, FrontIs, SequenceIs DEF Top
  <1>3. frames[h].met < Len(frames[h].items) /\ Item = frames[h].items[frames[h].met + 1]
    BY <1>2 DEF HasItem, Item
  <1>4. frames[h].items \in Seq(Items) /\ frames[h].met \in Nat
    <2>1. h \in 1..Len(frames)
      BY <1>2
    <2>2. frames[h] \in [parent : Roots(query) \cup Inner(query), on : {frames[h].on},
                         items : Seq(Items), met : Nat]
      BY <2>1 DEF Working, Building, Stacked
    <2> QED
      BY <2>2
  <1>5. Item \in Items
    <2>1. Len(frames[h].items) \in Nat
      BY <1>4
    <2>2. frames[h].met + 1 \in 1..Len(frames[h].items)
      BY <1>3, <1>4, <2>1
    <2> QED
      BY <1>3, <1>4, <2>2
  <1> QED
    BY <1>1, <1>2, <1>3, <1>5

\* A call after the first is for a field or an inline fragment, and on its type.
LEMMA TopIs ==
    ASSUME Working, NEW h, h = Len(frames), h \in Nat \ {0},
           frames[h].parent[1] \in {"Field", "InlineFragment"}
    PROVE  h > 1 /\ frames[h].on = TypeInside(frames[h].parent)
  <1>1. frames # <<>> => frames[1].parent \in Roots(query)
    BY DEF Working, Building, Stacked
  <1>2. frames # <<>>
    BY SequenceIs DEF Working, Building, Stacked
  <1>3. h # 1
    BY <1>1, <1>2 DEF Roots
  <1>4. h \in 2..Len(frames)
    BY <1>3
  <1> QED
    BY <1>4 DEF Working, Calling, Inside

\* An item of a kind is met and a selection of it is made, number n.
Making(kind, node, n, item) ==
  /\ Working /\ document \in Written /\ HasItem(kind)
  /\ n = Len(query.selections) /\ item = Item /\ MadeOf(n + 1, item)'
  /\ node[1] = "FragmentSpread" => node[2] \in DOMAIN query.fragments

LEMMA SelectKeeps ==
    ASSUME NEW kind, NEW node, NEW n, NEW item
    PROVE  /\ Making(kind, node, n, item) /\ Select(node)
           /\ node[1] \in {"Typename", "FragmentSpread"}
           => Working'
  <1>0. SUFFICES ASSUME Making(kind, node, n, item), Select(node),
                        node[1] \in {"Typename", "FragmentSpread"}
                 PROVE  Working'
    OBVIOUS
  <1>1. PICK h, P, k, w2 :
          /\ h = Len(frames) /\ P = Roots(query) \cup Inner(query) /\ k = <<node[1], n + 1>>
          /\ w2 = [p \in P \cup {k} |-> IF p = k THEN <<>> ELSE Wants[p]]
    OBVIOUS
  <1>2. /\ frames # <<>> /\ Top = frames[h] /\ frames[h].met < Len(frames[h].items)
        /\ item = frames[h].items[frames[h].met + 1] /\ h \in Nat \ {0}
    BY <1>0, <1>1, MeetsIs DEF Making
  <1>3. /\ Building(query, frames, item_of, made_for, Wants)
        /\ Recorded(query, item_of, made_for, Wants) /\ Rooted(query, made_for)
        /\ Stacked(query, frames, item_of, made_for)
        /\ Calling /\ Made /\ SpreadsKnown /\ n = Len(query.selections)
    BY <1>0 DEF Making, Working, Building
  <1>4. /\ query' = add_to_selection_set(push_selection(query, node, frames[h].parent),
                                         frames[h].parent, n + 1)
        /\ frames' = Passing(frames)
        /\ item_of' = Append(item_of, item) /\ made_for' = Append(made_for, frames[1].parent)
        /\ document' = document /\ at' = at
    BY <1>0, <1>2 DEF Making, Select, Noted, NewId, OthersLeft, Passing
  <1>5. node[1] \in Kinds
    BY <1>0 DEF Kinds
  <1>6. Selects(query, frames, item_of, made_for, Wants, node, n, h, P, k,
                query', frames', item_of', made_for', w2)
    BY <1>1, <1>2, <1>3, <1>4, <1>5 DEF Selects
  <1>7. /\ Building(query', frames', item_of', made_for', w2)
        /\ Larger(query, n, k, node, frames[h].parent, query')
    BY <1>6, SelectBuilds
  <1>8. /\ Len(frames') = h /\ frames' # <<>> /\ HasPassed(P, frames, h, frames')
    <2>1. h = Len(frames) /\ P = Roots(query) \cup Inner(query) /\ frames' = Passing(frames)
      BY <1>1, <1>4
    <2>2. Stacked(query, frames, item_of, made_for) /\ frames # <<>>
      BY <1>2, <1>3
    <2> QED
      BY <2>1, <2>2, PassingIs
  <1>9. Grows(n, k, node, item)
    <2>1. IsSequence(item_of) /\ Len(item_of) = n
      BY <1>3 DEF Recorded
    <2>2. item_of'[n + 1] = item /\ \A id \in 1..n : item_of'[id] = item_of[id]
      BY <1>4, <2>1, AppendIs
    <2>3. frames'[1].parent = frames[1].parent
      BY <1>2, <1>8 DEF HasPassed
    <2> QED
      BY <1>1, <1>2, <1>4, <1>5, <1>7, <1>8, <2>2, <2>3 DEF Grows
  <1>10. Wants' = w2
    <2>1. ItemsOf(k)' = <<>>
      BY <1>0, <1>1 DEF ItemsOf
    <2>2. Wants' = [p \in P \cup {k} |-> IF p = k THEN ItemsOf(k)' ELSE Wants[p]]
      <3>1. P = Roots(query) \cup Inner(query)
        BY <1>1
      <3> QED
        BY <1>3, <1>9, <3>1, GrowsWants, Zenon
    <2> QED
      BY <1>1, <2>1, <2>2
  <1>11. /\ Made' /\ SpreadsKnown'
         /\ \A p \in Inner(query) :
              p[1] \in {"Field", "InlineFragment"} => TypeInside(p)' = TypeInside(p)
    BY <1>0, <1>3, <1>9, GrowsMade DEF Making
  <1>12. Calling'
    <2>1. /\ \A j \in 1..h : /\ frames'[j].parent = frames[j].parent /\ frames'[j].on = frames[j].on
                             /\ frames'[j].items = frames[j].items
          /\ query'.fragments = query.fragments /\ query'.operations = query.operations
      BY <1>7, <1>8 DEF HasPassed, Larger
    <2>2. ASSUME NEW j \in 2..h
          PROVE  TypeInside(frames[j].parent)' = TypeInside(frames[j].parent)
      <3>1. frames[j].parent \in Inner(query) /\ frames[j].parent[1] \in {"Field", "InlineFragment"}
        BY <1>1, <1>3 DEF Stacked, Calling, Inside
      <3>2. PICK p : p = frames[j].parent
        OBVIOUS
      <3>3. frames'[j].parent = p
        BY <1>2, <2>1, <3>2
      <3>4. TypeInside(p)' = TypeInside(p)
        BY <1>11, <3>1, <3>2
      <3> QED
        BY <3>2, <3>3, <3>4
    <2>3. Len(frames') \in {h, h + 1} /\ ~(Len(frames') = h + 1)
      BY <1>2, <1>8
    <2>4. h = Len(frames) /\ document' = document /\ at' = at
      BY <1>1, <1>4
    <2> QED
      BY <1>2, <1>3, <2>1, <2>2, <2>3, <2>4, GrowsCalling, Zenon
  <1> QED
    BY <1>7, <1>10, <1>11, <1>12 DEF Working

LEMMA EnterKeeps ==
    ASSUME NEW kind, NEW node, NEW on, NEW items, NEW n, NEW item
    PROVE  /\ Making(kind, node, n, item) /\ SelectAndEnter(node, on, items)
           /\ node[1] \in {"Field", "InlineFragment"}
           /\ items = item[2].selection_set /\ items \in Seq(Items)
           /\ TypeInside(<<node[1], n + 1>>)' = on
           => Working'
  <1>0. SUFFICES ASSUME Making(kind, node, n, item), SelectAndEnter(node, on, items),
                        node[1] \in {"Field", "InlineFragment"},
                        items = item[2].selection_set, items \in Seq(Items),
                        TypeInside(<<node[1], n + 1>>)' = on
                 PROVE  Working'
    OBVIOUS
  <1>1. PICK h, P, k, w2 :
          /\ h = Len(frames) /\ P = Roots(query) \cup Inner(query) /\ k = <<node[1], n + 1>>
          /\ w2 = [p \in P \cup {k} |-> IF p = k THEN items ELSE Wants[p]]
    OBVIOUS
  <1>2. /\ frames # <<>> /\ Top = frames[h] /\ frames[h].met < Len(frames[h].items)
        /\ item = frames[h].items[frames[h].met + 1] /\ h \in Nat \ {0}
    BY <1>0, <1>1, MeetsIs DEF Making
  <1>3. /\ Building(query, frames, item_of, made_for, Wants)
        /\ Recorded(query, item_of, made_for, Wants) /\ Rooted(query, made_for)
        /\ Stacked(query, frames, item_of, made_for)
        /\ Calling /\ Made /\ SpreadsKnown /\ n = Len(query.selections)
    BY <1>0 DEF Making, Working, Building
  <1>4. /\ query' = push_selection(query, node, frames[h].parent)
        /\ frames' = Entering(frames, k, on, items)
        /\ item_of' = Append(item_of, item) /\ made_for' = Append(made_for, frames[1].parent)
        /\ document' = document /\ at' = at
    BY <1>0, <1>1, <1>2 DEF Making, SelectAndEnter, Noted, NewId, OthersLeft, Entering
  <1>5. node[1] \in Kinds /\ items \in Seq(Items)
    BY <1>0 DEF Kinds
  <1>6. Pushes(query, frames, item_of, made_for, Wants, node, on, items, n, h, P, k,
               query', frames', item_of', made_for', w2)
    BY <1>1, <1>2, <1>3, <1>4, <1>5 DEF Pushes
  <1>7. Building(query', frames', item_of', made_for', w2)
    BY <1>6, PushKeeps
  <1>8. Larger(query, n, k, node, frames[h].parent, query')
    <2>1. Recorded(query, item_of, made_for, Wants) /\ n = Len(query.selections)
      BY <1>3
    <2>2. k = <<node[1], n + 1>> /\ query' = push_selection(query, node, frames[h].parent)
      BY <1>1, <1>4
    <2> QED
      BY <1>5, <2>1, <2>2, PushIsLarger
  <1>9. HasEntered(P, frames, h, k, on, items, frames')
    <2>1. h = Len(frames) /\ P = Roots(query) \cup Inner(query) /\ frames' = Entering(frames, k, on, items)
      BY <1>1, <1>4
    <2>2. Stacked(query, frames, item_of, made_for) /\ frames # <<>>
      BY <1>2, <1>3
    <2> QED
      BY <2>1, <2>2, EnteringIs
  <1>10. /\ Len(frames') = h + 1 /\ frames' # <<>>
         /\ frames'[h + 1].parent = k /\ frames'[h + 1].on = on
         /\ \A j \in 1..h : /\ frames'[j].parent = frames[j].parent /\ frames'[j].on = frames[j].on
                            /\ frames'[j].items = frames[j].items
    <2>1. IsSequence(frames') /\ Len(frames') = h + 1
      BY <1>9 DEF HasEntered
    <2>2. frames' # <<>>
      BY <1>2, <2>1, SequenceIs
    <2> QED
      BY <1>9, <2>1, <2>2 DEF HasEntered, HasPassed
  <1>11. Grows(n, k, node, item)
    <2>1. IsSequence(item_of) /\ Len(item_of) = n
      BY <1>3 DEF Recorded
    <2>2. item_of'[n + 1] = item /\ \A id \in 1..n : item_of'[id] = item_of[id]
      BY <1>4, <2>1, AppendIs
    <2>3. frames'[1].parent = frames[1].parent
      BY <1>2, <1>10
    <2> QED
      BY <1>1, <1>2, <1>4, <1>5, <1>8, <1>10, <2>2, <2>3 DEF Grows
  <1>12. Wants' = w2
    <2>1. ItemsOf(k)' = items
      <3>1. item_of'[k[2]] = item /\ k[1] = node[1]
        BY <1>1, <1>11 DEF Grows
      <3> QED
        BY <1>0, <1>1, <3>1 DEF ItemsOf
    <2>2. Wants' = [p \in P \cup {k} |-> IF p = k THEN ItemsOf(k)' ELSE Wants[p]]
      <3>1. P = Roots(query) \cup Inner(query)
        BY <1>1
      <3> QED
        BY <1>3, <1>11, <3>1, GrowsWants, Zenon
    <2> QED
      BY <1>1, <2>1, <2>2
  <1>13. /\ Made' /\ SpreadsKnown'
         /\ \A p \in Inner(query) :
              p[1] \in {"Field", "InlineFragment"} => TypeInside(p)' = TypeInside(p)
    BY <1>0, <1>3, <1>11, GrowsMade DEF Making
  <1>14. Calling'
    <2>1. query'.fragments = query.fragments /\ query'.operations = query.operations
      BY <1>8 DEF Larger
    <2>2. ASSUME NEW j \in 2..h
          PROVE  TypeInside(frames[j].parent)' = TypeInside(frames[j].parent)
      <3>1. frames[j].parent \in Inner(query) /\ frames[j].parent[1] \in {"Field", "InlineFragment"}
        BY <1>1, <1>3 DEF Stacked, Calling, Inside
      <3>2. PICK p : p = frames[j].parent
        OBVIOUS
      <3>3. frames'[j].parent = p
        BY <1>2, <1>10, <3>2
      <3>4. TypeInside(p)' = TypeInside(p)
        BY <1>13, <3>1, <3>2
      <3> QED
        BY <3>2, <3>3, <3>4
    <2>3. Len(frames') \in {h, h + 1}
      BY <1>10
    <2>4. h = Len(frames) /\ document' = document /\ at' = at
      BY <1>1, <1>4
    <2>5. Inside(frames[h + 1])'
      <3>1. frames'[h + 1].parent = k /\ k[1] \in {"Field", "InlineFragment"}
        BY <1>0, <1>1, <1>10
      <3>2. TypeInside(k)' = on
        BY <1>0, <1>1
      <3> QED
        BY <1>10, <3>1, <3>2 DEF Inside
    <2>6. \A j \in 1..h : /\ frames'[j].parent = frames[j].parent /\ frames'[j].on = frames[j].on
                          /\ frames'[j].items = frames[j].items
      BY <1>10
    <2> QED
      BY <1>2, <1>3, <2>1, <2>2, <2>3, <2>4, <2>5, <2>6, GrowsCalling, Zenon
  <1> QED
    BY <1>7, <1>12, <1>13, <1>14 DEF Working

LEMMA WorkingStays ==
    ASSUME UNCHANGED <<document, at, frames, query, item_of, made_for>>, Working
    PROVE  Working'
  <1>1. Wants' = Wants
    <2>1. \A p : Met(p)' = Met(p)
      BY DEF Met
    <2>2. \A p : ItemsOf(p)' = ItemsOf(p)
      BY DEF ItemsOf, WrittenIn, FirstOfItsName, ItemsUnder, ItemsFor
    <2>3. \A p : Want(p)' = Want(p)
      BY <2>1, <2>2, UnderStays DEF Want, RootWant, FirstOfItsName
    <2> QED
      BY <2>3 DEF Wants
  <1>2. Calling'
    <2>1. Defining' = Defining
      BY DEF Defining
    <2>2. \A j \in 2..Len(frames) : Inside(frames[j])' = Inside(frames[j])
      BY DEF Inside, TypeInside, FieldType, Node
    <2> QED
      BY <2>1, <2>2 DEF Working, Calling
  <1>3. Made'
    BY ZenonT(60) DEF Working, Made, MadeOf, Node, TypeInside, FieldType, FirstOfItsName
  <1>4. SpreadsKnown'
    BY DEF Working, SpreadsKnown, Node
  <1> QED
    BY <1>1, <1>2, <1>3, <1>4 DEF Working

\* The ends, and the verdicts of the validation.
LEMMA EndKeepsInv ==
    ASSUME ResolutionInv, NEW outcome, EndsWith(outcome),
           \/ outcome \in {"error", "panic"}
           \/ outcome \in Ended /\ phase \in Ended
           \/ outcome = "roots" /\ phase = "roots"
    PROVE  ResolutionInv'
  <1>1. UNCHANGED <<document, at, frames, query, item_of, made_for>> /\ phase' = outcome
    BY DEF EndsWith
  <1>2. Working => Working'
    BY <1>1, WorkingStays
  <1>3. NothingSelected => NothingSelected'
    BY <1>1 DEF NothingSelected
  <1> QED
    BY <1>1, <1>2, <1>3 DEF ResolutionInv, Ended

\* The query has one selection more then.
LEMMA StepIsLarger ==
    ASSUME NEW kind, NEW node, NEW n, NEW k
    PROVE  /\ Working /\ HasItem(kind) /\ node[1] \in Kinds
           /\ n = Len(query.selections) /\ k = <<node[1], n + 1>>
           /\ Select(node) \/ \E on, items : SelectAndEnter(node, on, items)
           => Larger(query, n, k, node, Top.parent, query')
  <1>0. SUFFICES ASSUME Working, HasItem(kind), node[1] \in Kinds,
                        n = Len(query.selections), k = <<node[1], n + 1>>,
                        Select(node) \/ \E on, items : SelectAndEnter(node, on, items)
                 PROVE  Larger(query, n, k, node, Top.parent, query')
    OBVIOUS
  <1>1. PICK h, P, w2 :
          /\ h = Len(frames) /\ P = Roots(query) \cup Inner(query)
          /\ w2 = [p \in P \cup {k} |-> IF p = k THEN <<>> ELSE Wants[p]]
    OBVIOUS
  <1>2. /\ frames # <<>> /\ Top = frames[h] /\ frames[h].met < Len(frames[h].items)
        /\ Item = frames[h].items[frames[h].met + 1] /\ h \in Nat \ {0}
    BY <1>0, <1>1, MeetsIs
  <1>3. Building(query, frames, item_of, made_for, Wants) /\ Recorded(query, item_of, made_for, Wants)
    BY <1>0 DEF Working, Building
  <1>4. CASE Select(node)
    <2>1. /\ query' = add_to_selection_set(push_selection(query, node, frames[h].parent),
                                           frames[h].parent, n + 1)
          /\ frames' = Passing(frames)
          /\ item_of' = Append(item_of, frames[h].items[frames[h].met + 1])
          /\ made_for' = Append(made_for, frames[1].parent)
      BY <1>0, <1>2, <1>4 DEF Select, Noted, NewId, OthersLeft, Passing
    <2>2. Selects(query, frames, item_of, made_for, Wants, node, n, h, P, k,
                  query', frames', item_of', made_for', w2)
      BY <1>0, <1>1, <1>2, <1>3, <2>1 DEF Selects
    <2> QED
      BY <1>2, <2>2, SelectBuilds
  <1>5. CASE \E on, items : SelectAndEnter(node, on, items)
    <2>1. query' = push_selection(query, node, frames[h].parent)
      BY <1>2, <1>5 DEF SelectAndEnter
    <2>2. Larger(query, n, k, node, frames[h].parent, query')
      BY <1>0, <1>3, <2>1, PushIsLarger
    <2> QED
      BY <1>2, <2>2
  <1> QED
    BY <1>0, <1>4, <1>5

LEMMA TypenameKeeps ==
    ASSUME ResolutionInv, SelectTypename
    PROVE  ResolutionInv'
  <1>1. PICK n, item, node : n = Len(query.selections) /\ item = Item /\ node = <<"Typename">>
    OBVIOUS
  <1>2. Working /\ document \in Written /\ HasItem("Field") /\ Select(node)
    BY <1>1 DEF ResolutionInv, SelectTypename, HasItem
  <1>3. item[1] = "Field" /\ item[2].name = TYPENAME_FIELD
    BY <1>1 DEF SelectTypename, HasItem, IsTypename
  <1>4. node[1] = "Typename"
    BY <1>1
  <1>5. query'.selections[n + 1] = node
    <2>1. PICK k : k = <<node[1], n + 1>>
      OBVIOUS
    <2>2. node[1] \in Kinds
      BY <1>4 DEF Kinds
    <2> QED
      BY <1>1, <1>2, <2>1, <2>2, StepIsLarger DEF Larger
  <1>6. MadeOf(n + 1, item)'
    BY <1>3, <1>4, <1>5 DEF MadeOf, Node
  <1>7. Making("Field", node, n, item)
    BY <1>1, <1>2, <1>4, <1>6 DEF Making
  <1>8. Working'
    BY <1>2, <1>4, <1>7, SelectKeeps
  <1> QED
    BY <1>2, <1>8 DEF ResolutionInv, Select, Noted, HasItem, Ended

\* The parent at hand gives the same type to what is inside it then.
LEMMA TopStays ==
    ASSUME Working, NEW kind, HasItem(kind), NEW n, NEW k, NEW node,
           Larger(query, n, k, node, Top.parent, query'),
           Top.parent[1] \in {"Field", "InlineFragment"}, NEW p, p = Top.parent
    PROVE  TypeInside(p)' = Top.on
  <1>1. PICK h : h = Len(frames)
    OBVIOUS
  <1>2. h \in Nat \ {0} /\ Top = frames[h]
    BY <1>1, MeetsIs
  <1>3. h > 1 /\ frames[h].on = TypeInside(frames[h].parent)
    BY <1>1, <1>2, TopIs
  <1>4. p \in Inner(query)
    <2>1. h \in 2..Len(frames)
      BY <1>1, <1>2, <1>3
    <2> QED
      BY <1>2, <2>1 DEF Working, Building, Stacked
  <1>5. p[2] \in 1..n
    <2>1. IsSequence(query.selections)
      BY DEF Working, Building, Recorded
    <2>2. Ids(query) = 1..n
      BY <2>1, SequenceIs DEF Ids, Larger
    <2> QED
      BY <1>4, <2>2 DEF Inner
  <1>6. query'.selections[p[2]] = query.selections[p[2]]
    BY <1>5 DEF Larger
  <1>7. TypeInside(p)' = TypeInside(p)
    BY <1>6 DEF TypeInside, FieldType, Node
  <1> QED
    BY <1>2, <1>3, <1>7

LEMMA FieldKeeps ==
    ASSUME ResolutionInv, SelectField
    PROVE  ResolutionInv'
  <1>1. CASE EndsWith("error")
    BY <1>1, EndKeepsInv
  <1>2. CASE ~EndsWith("error")
    <2>1. PICK n, item, node, on, items, k :
            /\ n = Len(query.selections) /\ item = Item
            /\ node = <<"Field", [alias |-> item[2].alias, field_id |-> <<Top.on, item[2].name>>]>>
            /\ on = FieldsOf[Top.on][item[2].name].type /\ items = item[2].selection_set
            /\ k = <<node[1], n + 1>>
      OBVIOUS
    <2>2. /\ Working /\ document \in Written /\ HasItem("Field")
          /\ SelectAndEnter(node, on, items)
      BY <1>2, <2>1 DEF ResolutionInv, SelectField, HasItem
    <2>3. /\ item[1] = "Field" /\ item[2].name # TYPENAME_FIELD /\ item \in Items
      BY <2>1, <2>2, MeetsIs DEF SelectField, HasItem, IsTypename
    <2>4. items \in Seq(Items)
      BY <2>1, <2>3, ItemsAssumption
    <2>5. /\ node[1] = "Field" /\ node[2].alias = item[2].alias
          /\ node[2].field_id[1] = Top.on /\ node[2].field_id[2] = item[2].name
      BY <2>1
    <2>6. Larger(query, n, k, node, Top.parent, query')
      <3>1. node[1] \in Kinds
        BY <2>5 DEF Kinds
      <3> QED
        BY <2>1, <2>2, <3>1, StepIsLarger
    <2>7. query'.selections[n + 1] = node /\ query'.parents[n + 1] = Top.parent
      BY <2>6 DEF Larger
    <2>8. MadeOf(n + 1, item)'
      <3>1. PICK p, t : p = Top.parent /\ t = Top.on
        OBVIOUS
      <3>2. p[1] \in {"Field", "InlineFragment"} => TypeInside(p)' = t
        BY <2>2, <2>6, <3>1, TopStays
      <3>3. query'.parents[n + 1] = p /\ node[2].field_id[1] = t
        BY <2>5, <2>7, <3>1
      <3> QED
        BY <2>3, <2>5, <2>7, <3>2, <3>3 DEF MadeOf, Node
    <2>9. Making("Field", node, n, item)
      BY <2>1, <2>2, <2>5, <2>8 DEF Making
    <2>10. TypeInside(<<node[1], n + 1>>)' = on
      BY <2>1, <2>5, <2>7 DEF TypeInside, FieldType, Node
    <2>11. Working'
      BY <2>1, <2>2, <2>4, <2>5, <2>9, <2>10, EnterKeeps
    <2> QED
      BY <2>2, <2>11 DEF ResolutionInv, SelectAndEnter, Noted, HasItem, Ended
  <1> QED
    BY <1>1, <1>2

LEMMA InlineFragmentKeeps ==
    ASSUME ResolutionInv, SelectInlineFragment
    PROVE  ResolutionInv'
  <1>1. CASE EndsWith("error") \/ EndsWith("panic")
    BY <1>1, EndKeepsInv
  <1>2. CASE ~(EndsWith("error") \/ EndsWith("panic"))
    <2>1. PICK n, item, node, on, items, k :
            /\ n = Len(query.selections) /\ item = Item
            /\ on = item[2].type_condition[1][2] /\ node = <<"InlineFragment", [type_id |-> on]>>
            /\ items = item[2].selection_set
            /\ k = <<node[1], n + 1>>
      OBVIOUS
    <2>2. /\ Working /\ document \in Written /\ HasItem("InlineFragment")
          /\ SelectAndEnter(node, on, items)
      BY <1>2, <2>1 DEF ResolutionInv, SelectInlineFragment, HasItem
    <2>3. item[1] = "InlineFragment" /\ item \in Items
      BY <2>1, <2>2, MeetsIs DEF HasItem
    <2>4. items \in Seq(Items)
      BY <2>1, <2>3, ItemsAssumption
    <2>5. node[1] = "InlineFragment" /\ node[2].type_id = on
      BY <2>1
    <2>6. Larger(query, n, k, node, Top.parent, query')
      <3>1. node[1] \in Kinds
        BY <2>5 DEF Kinds
      <3> QED
        BY <2>1, <2>2, <3>1, StepIsLarger
    <2>7. query'.selections[n + 1] = node
      BY <2>6 DEF Larger
    <2>8. MadeOf(n + 1, item)'
      BY <2>1, <2>3, <2>5, <2>7 DEF MadeOf, Node
    <2>9. Making("InlineFragment", node, n, item)
      BY <2>1, <2>2, <2>5, <2>8 DEF Making
    <2>10. TypeInside(<<node[1], n + 1>>)' = on
      BY <2>5, <2>7 DEF TypeInside, Node
    <2>11. Working'
      BY <2>1, <2>2, <2>4, <2>5, <2>9, <2>10, EnterKeeps
    <2> QED
      BY <2>2, <2>11 DEF ResolutionInv, SelectAndEnter, Noted, HasItem, Ended
  <1> QED
    BY <1>1, <1>2

LEMMA FragmentSpreadKeeps ==
    ASSUME ResolutionInv, SelectFragmentSpread
    PROVE  ResolutionInv'
  <1>1. CASE EndsWith("error")
    BY <1>1, EndKeepsInv
  <1>2. CASE ~EndsWith("error")
    <2>1. PICK f \in Found(query.fragments, Item[2].fragment_name) : Select(<<"FragmentSpread", f>>)
      BY <1>2 DEF SelectFragmentSpread
    <2>2. PICK n, item, node, k :
            /\ n = Len(query.selections) /\ item = Item /\ node = <<"FragmentSpread", f>>
            /\ k = <<node[1], n + 1>>
      OBVIOUS
    <2>3. Working /\ document \in Written /\ HasItem("FragmentSpread") /\ Select(node)
      BY <2>1, <2>2 DEF ResolutionInv, SelectFragmentSpread, HasItem
    <2>4. node[1] = "FragmentSpread" /\ node[2] = f /\ item[1] = "FragmentSpread"
      BY <2>2, <2>3 DEF HasItem
    <2>5. /\ f \in DOMAIN query.fragments /\ query.fragments[f].name = item[2].fragment_name
          /\ FirstOfItsName(query.fragments, f)
      BY <2>1, <2>2 DEF Found, FirstOfItsName
    <2>6. Larger(query, n, k, node, Top.parent, query')
      <3>1. node[1] \in Kinds
        BY <2>4 DEF Kinds
      <3> QED
        BY <2>2, <2>3, <3>1, StepIsLarger
    <2>7. query'.selections[n + 1] = node /\ query'.fragments = query.fragments
      BY <2>6 DEF Larger
    <2>8. MadeOf(n + 1, item)'
      BY <2>4, <2>5, <2>7 DEF MadeOf, Node, FirstOfItsName
    <2>9. Making("FragmentSpread", node, n, item)
      BY <2>2, <2>3, <2>4, <2>5, <2>8 DEF Making
    <2>10. Working'
      BY <2>3, <2>4, <2>9, SelectKeeps
    <2> QED
      BY <2>3, <2>10 DEF ResolutionInv, Select, Noted, HasItem, Ended
  <1> QED
    BY <1>1, <1>2

------------------------------------------------------------------------------
(* The roots are created, and the selections begun.                          *)

\* r is q with one root more, and nothing selected in either.
LEMMA RootCreated ==
    ASSUME NothingSelected, NEW k, NEW F, NEW O, IsSequence(F), IsSequence(O),
           query' = [fragments |-> F, operations |-> O, selections |-> <<>>, parents |-> <<>>,
                     sets |-> WithSet(query.sets, k)],
           {<<"Fragment", i>> : i \in 1..Len(F)} \cup {<<"Operation", i>> : i \in 1..Len(O)}
             = Roots(query) \cup {k},
           UNCHANGED <<frames, item_of, made_for>>
    PROVE  NothingSelected'
  <1>1. query'.fragments = F /\ query'.operations = O
    OBVIOUS
  <1>2. Roots(query') = Roots(query) \cup {k}
    BY <1>1 DEF Roots
  <1>3. query.sets = [p \in Roots(query) |-> <<>>]
    BY DEF NothingSelected
  <1>4. WithSet(query.sets, k) = [p \in Roots(query) \cup {k} |-> <<>>]
    BY <1>3 DEF WithSet
  <1> QED
    BY <1>1, <1>2, <1>4 DEF NothingSelected

LEMMA CreateFragmentKeeps ==
    ASSUME ResolutionInv, CreateFragment
    PROVE  ResolutionInv'
  <1>1. CASE EndsWith("error")
    BY <1>1, EndKeepsInv
  <1>2. CASE ~EndsWith("error")
    <2>1. PICK f, e, k :
            /\ f = document[at][2] /\ e = [name |-> f.name, on |-> f.type_condition[2]]
            /\ k = <<"Fragment", Len(query.fragments) + 1>>
      OBVIOUS
    <2>2. /\ NothingSelected /\ document \in Written /\ at \in DOMAIN document
          /\ query' = [query EXCEPT !.fragments = Append(@, e), !.sets = WithSet(@, k)]
          /\ at' = at + 1
          /\ UNCHANGED <<document, phase, frames, item_of, made_for>> /\ phase = "roots"
      BY <1>2, <2>1 DEF ResolutionInv, CreateFragment
    <2>3. PICK F, O, S, L :
            /\ F = query.fragments /\ O = query.operations /\ S = query.sets /\ L = Append(F, e)
      OBVIOUS
    <2>4. query' = [fragments |-> L, operations |-> O, selections |-> <<>>, parents |-> <<>>,
                    sets |-> WithSet(S, k)]
      <3>1. query = [fragments |-> F, operations |-> O, selections |-> <<>>, parents |-> <<>>,
                     sets |-> S]
        BY <2>2, <2>3 DEF NothingSelected
      <3>2. PICK q : q = [query EXCEPT !.fragments = L]
        OBVIOUS
      <3>3. q = [fragments |-> L, operations |-> O, selections |-> <<>>, parents |-> <<>>,
                 sets |-> S]
        BY <3>1, <3>2
      <3>4. query' = [q EXCEPT !.sets = WithSet(S, k)]
        BY <2>2, <2>3, <3>2, Zenon
      <3> QED
        BY <3>3, <3>4
    <2>5. IsSequence(F) /\ IsSequence(O) /\ IsSequence(L) /\ Len(L) = Len(F) + 1 /\ Len(F) \in Nat
      BY <2>2, <2>3, AppendIs, SequenceIs DEF NothingSelected
    <2>6. {<<"Fragment", i>> : i \in 1..Len(L)} \cup {<<"Operation", i>> : i \in 1..Len(O)}
            = Roots(query) \cup {k}
      <3>1. 1..Len(L) = 1..Len(F) \cup {Len(F) + 1}
        BY <2>5
      <3> QED
        BY <2>1, <2>3, <3>1 DEF Roots
    <2>7. NothingSelected'
      BY <2>2, <2>3, <2>4, <2>5, <2>6, RootCreated
    <2>8. at' \in 1..Len(document) + 1
      BY <2>2, DocumentIs
    <2> QED
      BY <2>2, <2>7, <2>8 DEF ResolutionInv, Ended
  <1> QED
    BY <1>1, <1>2

LEMMA CreateOperationKeeps ==
    ASSUME ResolutionInv, CreateOperation
    PROVE  ResolutionInv'
  <1>1. PICK kind, o : kind = document[at][2][1] /\ o = document[at][2][2]
    OBVIOUS
  <1>2. CASE Refused(kind, o) # "roots"
    <2>1. EndsWith(Refused(kind, o))
      BY <1>1, <1>2 DEF CreateOperation
    <2>2. Refused(kind, o) \in {"error", "panic"}
      BY <1>2 DEF Refused
    <2> QED
      BY <2>1, <2>2, EndKeepsInv
  <1>3. CASE Refused(kind, o) = "roots"
    <2>1. PICK e, k :
            /\ e = [name |-> o.name[1], operation_type |-> kind,
                    query_string |-> <<document[at]>>, object_id |-> RootType[kind][1]]
            /\ k = <<"Operation", Len(query.operations) + 1>>
      OBVIOUS
    <2>2. /\ NothingSelected /\ document \in Written /\ at \in DOMAIN document
          /\ query' = [query EXCEPT !.operations = Append(@, e), !.sets = WithSet(@, k)]
          /\ at' = at + 1
          /\ UNCHANGED <<document, phase, frames, item_of, made_for>> /\ phase = "roots"
      BY <1>1, <1>3, <2>1 DEF ResolutionInv, CreateOperation
    <2>3. PICK F, O, S, L :
            /\ F = query.fragments /\ O = query.operations /\ S = query.sets /\ L = Append(O, e)
      OBVIOUS
    <2>4. query' = [fragments |-> F, operations |-> L, selections |-> <<>>, parents |-> <<>>,
                    sets |-> WithSet(S, k)]
      <3>1. query = [fragments |-> F, operations |-> O, selections |-> <<>>, parents |-> <<>>,
                     sets |-> S]
        BY <2>2, <2>3 DEF NothingSelected
      <3>2. PICK q : q = [query EXCEPT !.operations = L]
        OBVIOUS
      <3>3. q = [fragments |-> F, operations |-> L, selections |-> <<>>, parents |-> <<>>,
                 sets |-> S]
        BY <3>1, <3>2
      <3>4. query' = [q EXCEPT !.sets = WithSet(S, k)]
        BY <2>2, <2>3, <3>2, Zenon
      <3> QED
        BY <3>3, <3>4
    <2>5. IsSequence(F) /\ IsSequence(O) /\ IsSequence(L) /\ Len(L) = Len(O) + 1 /\ Len(O) \in Nat
      BY <2>2, <2>3, AppendIs, SequenceIs DEF NothingSelected
    <2>6. {<<"Fragment", i>> : i \in 1..Len(F)} \cup {<<"Operation", i>> : i \in 1..Len(L)}
            = Roots(query) \cup {k}
      <3>1. 1..Len(L) = 1..Len(O) \cup {Len(O) + 1}
        BY <2>5
      <3> QED
        BY <2>1, <2>3, <3>1 DEF Roots
    <2>7. NothingSelected'
      BY <2>2, <2>3, <2>4, <2>5, <2>6, RootCreated
    <2>8. at' \in 1..Len(document) + 1
      BY <2>2, DocumentIs
    <2> QED
      BY <2>2, <2>7, <2>8 DEF ResolutionInv, Ended
  <1> QED
    BY <1>2, <1>3

\* Nothing is written yet for any root when the selections begin.
LEMMA RootsCreatedKeeps ==
    ASSUME ResolutionInv, RootsCreated
    PROVE  ResolutionInv'
  <1>1. /\ NothingSelected /\ document \in Written /\ at' = 1 /\ phase' = "selections"
        /\ UNCHANGED <<document, frames, query, item_of, made_for>>
    BY DEF ResolutionInv, RootsCreated
  <1>2. /\ query'.selections = <<>> /\ query'.parents = <<>> /\ item_of' = <<>> /\ made_for' = <<>>
        /\ frames' = <<>> /\ query'.sets = [p \in Roots(query') |-> <<>>]
        /\ query' = [fragments |-> query'.fragments, operations |-> query'.operations,
                     selections |-> query'.selections, parents |-> query'.parents,
                     sets |-> query'.sets]
        /\ IsSequence(query'.fragments) /\ IsSequence(query'.operations)
    BY <1>1 DEF NothingSelected
  <1>3. Ids(query') = {} /\ Inner(query') = {} /\ DOMAIN query'.selections = {}
    BY <1>2 DEF Ids, Inner
  <1>4. Wants' = [p \in Roots(query') |-> <<>>]
    <2>1. ASSUME NEW p \in Roots(query')
          PROVE  Want(p)' = <<>>
      <3>1. Met(p)' = 0
        BY <1>1, <1>2 DEF Met
      <3>2. \A kind, name : ItemsUnder(kind, name)'[0] = <<>>
        BY ZenonT(60), <1>1, UnderIs, UnderStays
      <3>3. p[1] \in {"Fragment", "Operation"}
        BY DEF Roots
      <3> QED
        BY <3>1, <3>2, <3>3 DEF Want, RootWant
    <2> QED
      BY <1>3, <2>1 DEF Wants
  <1>5. Building(query', frames', item_of', made_for', Wants')
    <2>1. IsSequence(<<>>) /\ Len(<<>>) = 0
      BY DEF IsSequence
    <2>2. Recorded(query', item_of', made_for', Wants')
      <3>1. query'.sets \in [Roots(query') -> Seq(Nat)] /\ Wants' \in [Roots(query') -> Seq(Items)]
        BY <1>2, <1>4
      <3> QED
        BY <1>2, <1>3, <2>1, <3>1 DEF Recorded
    <2>3. Rooted(query', made_for')
      BY <1>3 DEF Rooted
    <2>4. Placed(query', frames')
      BY <1>2, <1>3, <2>1 DEF Placed
    <2>5. Stacked(query', frames', item_of', made_for')
      BY <1>2, <2>1 DEF Stacked
    <2>6. Filled(query', frames', item_of', Wants')
      BY <1>2, <1>3, <1>4, <2>1 DEF Filled
    <2> QED
      BY <2>2, <2>3, <2>4, <2>5, <2>6 DEF Building
  <1>6. Calling' /\ Made' /\ SpreadsKnown'
    BY <1>2, <1>3 DEF Calling, Made, SpreadsKnown
  <1>7. at' \in 1..Len(document) + 1
    BY <1>1, DocumentIs
  <1> QED
    BY <1>1, <1>5, <1>6, <1>7 DEF ResolutionInv, Working, Ended

------------------------------------------------------------------------------
(* A definition is begun, and resolved.                                      *)

LEMMA KindsAre ==
    ASSUME Working
    PROVE  \A id \in DOMAIN query.selections : query.selections[id][1] \in Kinds
  <1>1. Recorded(query, item_of, made_for, Wants)
    BY DEF Working, Building
  <1>2. DOMAIN query.selections = Ids(query)
    BY <1>1, SequenceIs DEF Recorded, Ids
  <1> QED
    BY <1>1, <1>2 DEF Recorded

\* What is made of the selections, when no selection changes.
LEMMA MadeStays ==
    ASSUME document' = document, item_of' = item_of,
           query'.fragments = query.fragments, query'.operations = query.operations,
           query'.selections = query.selections, query'.parents = query.parents,
           \A id \in DOMAIN query.selections : query.selections[id][1] \in Kinds
    PROVE  /\ Made => Made'
           /\ SpreadsKnown => SpreadsKnown'
           /\ \A p : ItemsOf(p)' = ItemsOf(p) /\ TypeInside(p)' = TypeInside(p)
           /\ Roots(query') = Roots(query) /\ Inner(query') = Inner(query)
  <1>1. ASSUME Made
        PROVE  Made'
    <2>1. ASSUME NEW id \in DOMAIN query.selections
          PROVE  MadeOf(id, item_of[id])'
      <3>1. PICK i, p, t : i = item_of[id] /\ p = query.parents[id] /\ t = TypeInside(p)
        OBVIOUS
      <3>2. MadeOf(id, i) /\ item_of'[id] = i /\ query'.parents[id] = p
        BY <1>1, <3>1 DEF Made
      <3>3. TypeInside(p)' = t
        BY <3>1 DEF TypeInside, FieldType, Node
      <3>4. CASE query.selections[id][1] = "Field"
        BY <3>1, <3>2, <3>3, <3>4 DEF MadeOf, Node
      <3>5. CASE query.selections[id][1] = "Typename"
        BY <3>2, <3>5 DEF MadeOf, Node
      <3>6. CASE query.selections[id][1] = "InlineFragment"
        BY <3>2, <3>6 DEF MadeOf, Node
      <3>7. CASE query.selections[id][1] = "FragmentSpread"
        BY <3>2, <3>7 DEF MadeOf, Node, FirstOfItsName
      <3> QED
        BY <3>4, <3>5, <3>6, <3>7 DEF Kinds
    <2> QED
      BY <2>1 DEF Made
  <1>2. SpreadsKnown => SpreadsKnown'
    BY DEF SpreadsKnown, Node
  <1>3. \A p : ItemsOf(p)' = ItemsOf(p)
    BY DEF ItemsOf, WrittenIn, FirstOfItsName, ItemsUnder, ItemsFor
  <1>4. \A p : TypeInside(p)' = TypeInside(p)
    BY DEF TypeInside, FieldType, Node
  <1> QED
    BY <1>1, <1>2, <1>3, <1>4 DEF Roots, Inner, Ids

LEMMA BeginDefinitionKeeps ==
    ASSUME ResolutionInv, BeginDefinition
    PROVE  ResolutionInv'
  <1>1. CASE EndsWith("error")
    BY <1>1, EndKeepsInv
  <1>2. CASE ~EndsWith("error")
    <2>1. PICK d, items, on, named :
            /\ d = document[at] /\ items = Body(d).selection_set
            /\ on = IF d[1] = "Fragment" THEN d[2].type_condition[2] ELSE RootType[d[2][1]][1]
            /\ named = IF d[1] = "Fragment" THEN query.fragments ELSE query.operations
      OBVIOUS
    <2>2. /\ \E id \in Found(named, NameOf(d)) : frames' = <<Frame(<<d[1], id>>, on, items)>>
          /\ UNCHANGED <<document, phase, at, query, item_of, made_for>>
          /\ phase = "selections" /\ frames = <<>> /\ at \in DOMAIN document
      BY <1>2, <2>1 DEF BeginDefinition
    <2>3. PICK id, p : /\ id \in Found(named, NameOf(d)) /\ p = <<d[1], id>>
                       /\ frames' = <<Frame(p, on, items)>>
      BY <2>2
    <2>4. /\ Working /\ document \in Written /\ at \in 1..Len(document) /\ Len(document) \in Nat
          /\ d[1] \in {"Fragment", "Operation"} /\ items \in Seq(Items)
      <3>1. Working /\ document \in Written
        BY <2>2 DEF ResolutionInv
      <3> QED
        BY <2>1, <2>2, <3>1, DocumentIs
    <2>5. Building(query, <<>>, item_of, made_for, Wants) /\ Recorded(query, item_of, made_for, Wants)
      BY <2>2, <2>4 DEF Working, Building
    <2>6. /\ id \in DOMAIN named /\ named[id].name = NameOf(d) /\ FirstOfItsName(named, id)
          /\ p \in Roots(query)
      <3>1. id \in DOMAIN named /\ named[id].name = NameOf(d) /\ FirstOfItsName(named, id)
        BY <2>3 DEF Found, FirstOfItsName
      <3>2. IsSequence(named)
        BY <2>1, <2>5 DEF Recorded
      <3>3. id \in 1..Len(named)
        BY <3>1, <3>2, SequenceIs
      <3>4. ASSUME d[1] = "Fragment"
            PROVE  p \in Roots(query)
        BY <2>1, <2>3, <3>3, <3>4 DEF Roots
      <3>5. ASSUME d[1] = "Operation"
            PROVE  p \in Roots(query)
        BY <2>1, <2>3, <3>3, <3>5 DEF Roots
      <3> QED
        BY <2>4, <3>1, <3>4, <3>5
    <2>7. PICK P, w2 : P = Roots(query) \cup Inner(query) /\ w2 = Wants'
      OBVIOUS
    <2>8. /\ \A x : ItemsOf(x)' = ItemsOf(x) /\ TypeInside(x)' = TypeInside(x)
          /\ Roots(query') = Roots(query) /\ Inner(query') = Inner(query)
          /\ Made' /\ SpreadsKnown'
      <3>1. /\ UNCHANGED <<document, query, item_of>> /\ Made /\ SpreadsKnown
            /\ \A x \in DOMAIN query.selections : query.selections[x][1] \in Kinds
        BY <2>2, <2>4, KindsAre DEF Working
      <3> QED
        BY <3>1, MadeStays
    <2>9. \A x : Met(x) = at - 1 /\ Met(x)' = IF x = p THEN at ELSE at - 1
      <3>1. frames' # <<>> /\ frames'[1].parent = p
        BY <2>3 DEF Frame
      <3> QED
        BY <2>2, <3>1 DEF Met
    <2>10. \A x \in P : x # p => Want(x)' = Want(x)
      BY <2>2, <2>8, <2>9, UnderStays DEF Want, RootWant, FirstOfItsName
    <2>11. Want(p)' = Want(p) \o items
      <3>1. PICK U : U = ItemsUnder(d[1], NameOf(d))
        OBVIOUS
      <3>2. U[at] = U[at - 1] \o items
        <4>1. ItemsFor(document[at], d[1], NameOf(d)) = items
          BY <2>1 DEF ItemsFor
        <4> QED
          BY <2>4, <3>1, <4>1, UnderIs
      <3>3. p[1] = d[1] /\ p[2] = id
        BY <2>3
      <3>4. Want(p) = U[at - 1]
        BY <2>1, <2>4, <2>6, <2>9, <3>1, <3>3 DEF Want, RootWant
      <3>5. Want(p)' = U[at]
        <4>1. UNCHANGED <<document, query>> /\ Met(p)' = at
          BY <2>2, <2>9
        <4>2. ItemsUnder(d[1], NameOf(d))' = U
          BY <3>1, <4>1, UnderStays
        <4>3. CASE d[1] = "Fragment"
          BY <2>1, <2>6, <3>3, <4>1, <4>2, <4>3, UnderStays, <3>1 DEF Want, RootWant, FirstOfItsName
        <4>4. CASE d[1] = "Operation"
          BY <2>1, <2>6, <3>3, <4>1, <4>2, <4>4, UnderStays, <3>1 DEF Want, RootWant, FirstOfItsName
        <4> QED
          BY <2>4, <4>3, <4>4
      <3> QED
        BY <3>2, <3>4, <3>5
    <2>12. Building(query, frames', item_of, made_for, w2)
      <3>1. p \in P
        BY <2>6, <2>7
      <3>2. Wants = [x \in P |-> Want(x)] /\ w2 = [x \in P |-> Want(x)']
        BY <2>7, <2>8 DEF Wants
      <3>3. w2[p] = Wants[p] \o items /\ \A x \in P : x # p => w2[x] = Wants[x]
        BY <2>10, <2>11, <3>1, <3>2
      <3>4. w2 = [x \in P |-> w2[x]]
        BY <3>2
      <3>5. Begins(query, item_of, made_for, Wants, p, on, items, P, frames', w2)
        BY <2>3, <2>4, <2>5, <2>6, <2>7, <3>3, <3>4, Zenon DEF Begins
      <3> QED
        BY <3>5, BeginKeeps
    <2>13. Calling'
      <3>1. /\ Len(frames') = 1 /\ frames'[1].parent = p /\ frames'[1].items = items
            /\ p[1] = d[1] /\ p[2] = id
        BY <2>3 DEF Frame
      <3>2. Defining'
        <4>1. /\ d = document'[at'] /\ p = frames'[1].parent
              /\ named = IF d[1] = "Fragment" THEN query'.fragments ELSE query'.operations
              /\ at' <= Len(document') /\ frames'[1].items = Body(d).selection_set
          BY <2>1, <2>2, <2>4, <3>1
        <4>2. p[1] = d[1] /\ p[2] \in Found(named, NameOf(d))
          BY <2>3, <3>1
        <4> QED
          BY <4>1, <4>2 DEF Defining
      <3> QED
        BY <3>1, <3>2 DEF Calling
    <2>14. Working'
      BY <2>2, <2>7, <2>8, <2>12, <2>13 DEF Working
    <2> QED
      BY <2>2, <2>4, <2>14 DEF ResolutionInv, Ended
  <1> QED
    BY <1>1, <1>2

\* Nothing is written in the definition at hand but for the root its call is for.
LEMMA NoMoreFor ==
    ASSUME Defining, document \in Written, at \in 1..Len(document),
           NEW kind, NEW named, NEW i,
           \/ kind = "Fragment" /\ named = query.fragments
           \/ kind = "Operation" /\ named = query.operations,
           i \in 1..Len(named), IsSequence(named), <<kind, i>> # frames[1].parent,
           frames[1].parent = <<kind, frames[1].parent[2]>> \/ frames[1].parent[1] # kind
    PROVE  RootWant(kind, named, i, at) = RootWant(kind, named, i, at - 1)
  <1>1. PICK U, name : name = named[i].name /\ U = ItemsUnder(kind, name)
    OBVIOUS
  <1>2. CASE ~FirstOfItsName(named, i)
    BY <1>2 DEF RootWant
  <1>3. CASE FirstOfItsName(named, i)
    <2>1. U[at] = U[at - 1] \o ItemsFor(document[at], kind, name) /\ U[at - 1] \in Seq(Items)
      <3>1. at - 1 \in 0..Len(document)
        BY DocumentIs
      <3> QED
        BY <1>1, <3>1, UnderIs
    <2>2. ItemsFor(document[at], kind, name) = <<>>
      <3>1. SUFFICES ASSUME document[at][1] = kind, NameOf(document[at]) = name
                     PROVE  FALSE
        BY DEF ItemsFor
      <3>2. PICK j : j = frames[1].parent[2]
        OBVIOUS
      <3>3. frames[1].parent[1] = kind /\ j \in Found(named, name)
        BY <3>1, <3>2 DEF Defining
      <3>4. j \in 1..Len(named) /\ named[j].name = name /\ \A x \in 1..j - 1 : named[x].name # name
        BY <3>3, SequenceIs DEF Found
      <3>5. i # j
        BY <3>2, <3>3
      <3>6. \A x \in 1..i - 1 : named[x].name # name
        BY <1>1, <1>3 DEF FirstOfItsName
      <3>7. Len(named) \in Nat
        BY SequenceIs
      <3>8. i \in 1..j - 1 \/ j \in 1..i - 1
        BY <3>4, <3>5, <3>7
      <3> QED
        BY <1>1, <3>4, <3>6, <3>8
    <2> QED
      BY <1>1, <1>3, <2>1, <2>2, ConcatEmptySeq DEF RootWant
  <1> QED
    BY <1>2, <1>3

\* The call for a field or an inline fragment returns.
LEMMA InnerReturns ==
    ASSUME Working, ReturnFromSelection, NEW h, h = Len(frames), h > 1, h \in Nat,
           Top = frames[h], IsSequence(frames)
    PROVE  Working'
  <1>1. PICK id, P, p : /\ id = frames[h].parent[2] /\ P = Roots(query) \cup Inner(query)
                        /\ p = query.parents[id]
    OBVIOUS
  <1>2. /\ Building(query, frames, item_of, made_for, Wants) /\ Recorded(query, item_of, made_for, Wants)
        /\ Stacked(query, frames, item_of, made_for) /\ Calling /\ Made /\ SpreadsKnown
    BY DEF Working, Building
  <1>3. Inside(frames[h]) /\ frames[h].parent \in Inner(query) /\ p = frames[h - 1].parent
    <2>1. h \in 2..Len(frames)
      OBVIOUS
    <2> QED
      BY <1>1, <1>2, <2>1 DEF Calling, Stacked
  <1>4. /\ query' = add_to_selection_set(query, p, id) /\ frames' = Front(frames) /\ at' = at
        /\ UNCHANGED <<document, phase, item_of, made_for>> /\ frames[h].met = Len(frames[h].items)
    BY <1>1, <1>3 DEF ReturnFromSelection, Inside
  <1>5. Building(query', frames', item_of', made_for', Wants)
    <2>1. Pops(query, frames, item_of, made_for, Wants, h, P, p, id, query', frames')
      BY <1>1, <1>2, <1>4 DEF Pops
    <2>2. Building(query', frames', item_of, made_for, Wants)
      BY <2>1, PopKeeps
    <2> QED
      BY <1>4, <2>2
  <1>6. /\ query'.fragments = query.fragments /\ query'.operations = query.operations
        /\ query'.selections = query.selections /\ query'.parents = query.parents
    <2>1. id \in Nat
      BY <1>1, <1>3 DEF Inner, Ids
    <2>2. p \in P
      <3>1. h - 1 \in 1..Len(frames)
        OBVIOUS
      <3>2. frames[h - 1] \in [parent : P, on : {frames[h - 1].on}, items : Seq(Items), met : Nat]
        BY <1>1, <1>2, <3>1 DEF Stacked
      <3> QED
        BY <1>3, <3>2
    <2>3. HasAdded(query, P, p, id, query')
      BY <1>1, <1>2, <1>4, <2>1, <2>2, AddingIs
    <2> QED
      BY <2>3 DEF HasAdded
  <1>7. /\ \A x : ItemsOf(x)' = ItemsOf(x) /\ TypeInside(x)' = TypeInside(x)
        /\ Roots(query') = Roots(query) /\ Inner(query') = Inner(query)
        /\ Made' /\ SpreadsKnown'
    BY <1>2, <1>4, <1>6, KindsAre, MadeStays
  <1>8. /\ Len(frames') = h - 1 /\ frames' # <<>> /\ frames # <<>>
        /\ \A j \in 1..h - 1 : frames'[j] = frames[j]
    <2>1. frames # <<>>
      BY SequenceIs
    <2>2. /\ IsSequence(frames') /\ Len(frames') = h - 1
          /\ \A j \in 1..h - 1 : frames'[j] = frames[j]
      BY <1>4, <2>1, FrontIs
    <2>3. frames' # <<>>
      BY <2>2, SequenceIs
    <2> QED
      BY <2>1, <2>2, <2>3
  <1>9. Wants' = Wants
    <2>1. frames'[1].parent = frames[1].parent
      BY <1>8
    <2>2. \A x : Met(x)' = Met(x)
      BY <1>4, <1>8, <2>1 DEF Met
    <2>3. \A x : Want(x)' = Want(x)
      BY <1>4, <1>6, <1>7, <2>2, UnderStays DEF Want, RootWant, FirstOfItsName
    <2> QED
      BY <1>7, <2>3 DEF Wants
  <1>10. Calling'
    <2>1. \A j \in 1..h - 1 :
            /\ frames'[j].parent = frames[j].parent /\ frames'[j].on = frames[j].on
            /\ frames'[j].items = frames[j].items
      BY <1>8
    <2>2. Defining'
      <3>1. PICK d, r, named :
              /\ d = document[at] /\ r = frames[1].parent
              /\ named = IF d[1] = "Fragment" THEN query.fragments ELSE query.operations
        OBVIOUS
      <3>2. /\ at <= Len(document) /\ r[1] = d[1] /\ r[2] \in Found(named, NameOf(d))
            /\ frames[1].items = Body(d).selection_set
        BY <1>2, <1>8, <3>1 DEF Calling, Defining
      <3>3. /\ d = document'[at'] /\ r = frames'[1].parent
            /\ named = IF d[1] = "Fragment" THEN query'.fragments ELSE query'.operations
            /\ at' <= Len(document') /\ frames'[1].items = Body(d).selection_set
        BY <1>4, <1>6, <2>1, <3>1, <3>2
      <3> QED
        BY <3>2, <3>3 DEF Defining
    <2>3. ASSUME NEW j \in 2..Len(frames')
          PROVE  Inside(frames[j])'
      <3>1. j \in 2..Len(frames) /\ j \in 1..h - 1
        BY <1>8
      <3>2. PICK x, t : x = frames[j].parent /\ t = frames[j].on
        OBVIOUS
      <3>3. x[1] \in {"Field", "InlineFragment"} /\ t = TypeInside(x)
        BY <1>2, <3>1, <3>2 DEF Calling, Inside
      <3>4. frames'[j].parent = x /\ frames'[j].on = t /\ TypeInside(x)' = TypeInside(x)
        BY <1>7, <2>1, <3>1, <3>2
      <3> QED
        BY <3>3, <3>4 DEF Inside
    <2> QED
      BY <2>2, <2>3 DEF Calling
  <1> QED
    BY <1>5, <1>7, <1>9, <1>10 DEF Working

\* The call for a root returns, and the next definition is at hand.
LEMMA RootReturns ==
    ASSUME Working, ReturnFromSelection, document \in Written, at \in 1..Len(document) + 1,
           Len(frames) = 1, Top = frames[1], IsSequence(frames)
    PROVE  Working' /\ at' \in 1..Len(document) + 1
  <1>1. /\ Building(query, frames, item_of, made_for, Wants) /\ Recorded(query, item_of, made_for, Wants)
        /\ Stacked(query, frames, item_of, made_for) /\ Calling /\ Made /\ SpreadsKnown
    BY DEF Working, Building
  <1>2. frames # <<>> /\ frames[1].parent \in Roots(query) /\ Defining
    <2>1. frames # <<>>
      BY SequenceIs
    <2> QED
      BY <1>1, <2>1 DEF Stacked, Calling
  <1>3. /\ query' = query /\ at' = at + 1 /\ frames' = Front(frames)
        /\ UNCHANGED <<document, phase, item_of, made_for>> /\ frames[1].met = Len(frames[1].items)
    BY <1>2 DEF ReturnFromSelection, Roots
  <1>4. frames' = <<>>
    BY <1>2, <1>3, FrontIs, SequenceIs
  <1>5. at \in 1..Len(document) /\ Len(document) \in Nat
    BY <1>2, DocumentIs DEF Defining
  <1>6. /\ \A x : ItemsOf(x)' = ItemsOf(x)
        /\ Roots(query') = Roots(query) /\ Inner(query') = Inner(query)
        /\ Made' /\ SpreadsKnown'
    BY <1>1, <1>3, KindsAre, MadeStays
  <1>7. Wants' = Wants
    <2>1. \A x : Met(x)' = at /\ Met(x) = IF x = frames[1].parent THEN at ELSE at - 1
      BY <1>2, <1>3, <1>4, <1>5 DEF Met
    <2>2. ASSUME NEW kind, NEW named, NEW i,
                 \/ kind = "Fragment" /\ named = query.fragments
                 \/ kind = "Operation" /\ named = query.operations,
                 i \in 1..Len(named)
          PROVE  Want(<<kind, i>>)' = Want(<<kind, i>>)
      <3>1. PICK x, n : x = <<kind, i>> /\ n = Met(x)
        OBVIOUS
      <3>2. x[1] = kind /\ x[2] = i
        BY <3>1
      <3>3. Want(x) = RootWant(kind, named, i, n)
        BY <2>2, <3>1, <3>2 DEF Want
      <3>4. Want(x)' = RootWant(kind, named, i, at)
        <4>1. /\ query' = query /\ Met(x)' = at
              /\ \A k, u : ItemsUnder(k, u)' = ItemsUnder(k, u)
          BY <1>3, <2>1, UnderStays
        <4> QED
          BY <2>2, <3>2, <4>1 DEF Want, RootWant, FirstOfItsName
      <3>5. RootWant(kind, named, i, n) = RootWant(kind, named, i, at)
        <4>1. CASE x = frames[1].parent
          BY <2>1, <3>1, <4>1
        <4>2. CASE x # frames[1].parent
          <5>1. n = at - 1
            BY <2>1, <3>1, <4>2
          <5>2. IsSequence(named)
            BY <1>1, <2>2 DEF Recorded
          <5>3. frames[1].parent = <<kind, frames[1].parent[2]>> \/ frames[1].parent[1] # kind
            BY <1>2 DEF Roots
          <5> QED
            BY <1>2, <1>5, <2>2, <3>1, <4>2, <5>1, <5>2, <5>3, NoMoreFor
        <4> QED
          BY <4>1, <4>2
      <3> QED
        BY <3>1, <3>3, <3>4, <3>5
    <2>3. \A x \in Roots(query) : Want(x)' = Want(x)
      BY <2>2 DEF Roots
    <2>4. \A x \in Inner(query) : Want(x)' = Want(x)
      <3>1. \A x \in Inner(query) : x[1] \in Kinds
        BY <1>1 DEF Recorded, Inner
      <3> QED
        BY <1>6, <3>1 DEF Want, Kinds
    <2> QED
      BY <1>6, <2>3, <2>4 DEF Wants
  <1>8. Building(query', frames', item_of', made_for', Wants')
    <2>1. Building(query, <<>>, item_of, made_for, Wants)
      BY <1>1, <1>3, EndKeeps
    <2> QED
      BY <1>3, <1>4, <1>7, <2>1
  <1>9. Calling'
    BY <1>4 DEF Calling
  <1> QED
    BY <1>3, <1>5, <1>6, <1>8, <1>9 DEF Working

LEMMA ReturnKeeps ==
    ASSUME ResolutionInv, ReturnFromSelection
    PROVE  ResolutionInv'
  <1>1. /\ Working /\ document \in Written /\ at \in 1..Len(document) + 1
        /\ phase = "selections" /\ phase' = phase /\ document' = document /\ frames # <<>>
    BY DEF ResolutionInv, ReturnFromSelection
  <1>2. IsSequence(frames) /\ Len(frames) \in Nat \ {0} /\ Top = frames[Len(frames)]
    <2>1. IsSequence(frames)
      BY <1>1 DEF Working, Building, Stacked
    <2> QED
      BY <1>1, <2>1, SequenceIs, FrontIs DEF Top
  <1>3. CASE Len(frames) = 1
    BY <1>1, <1>2, <1>3, RootReturns DEF ResolutionInv, Ended
  <1>4. CASE Len(frames) # 1
    <2>0. PICK h \in Nat : h = Len(frames) /\ h > 1 /\ h \in 2..h
      <3>1. \A h \in Nat \ {0} : h # 1 => h > 1 /\ h \in 2..h
        OBVIOUS
      <3> QED
        BY <1>2, <1>4, <3>1
    <2>1. at' = at
      <3>1. Inside(frames[h])
        BY <1>1, <2>0 DEF Working, Calling
      <3> QED
        BY <1>2, <2>0, <3>1 DEF ReturnFromSelection, Inside
    <2>2. Working'
      BY <1>1, <1>2, <2>0, InnerReturns
    <2> QED
      BY <1>1, <2>1, <2>2 DEF ResolutionInv, Ended
  <1> QED
    BY <1>3, <1>4

LEMMA SelectionsResolvedKeeps ==
    ASSUME ResolutionInv, SelectionsResolved
    PROVE  ResolutionInv'
  <1>1. /\ Working /\ document \in Written /\ at \in 1..Len(document) + 1 /\ frames = <<>>
        /\ at \notin DOMAIN document /\ phase' = "typenames"
        /\ UNCHANGED <<document, at, frames, query, item_of, made_for>>
    BY DEF ResolutionInv, SelectionsResolved
  <1>2. at = Len(document) + 1
    BY <1>1, DocumentIs
  <1>3. Working'
    BY <1>1, WorkingStays
  <1> QED
    BY <1>1, <1>2, <1>3 DEF ResolutionInv, Ended

------------------------------------------------------------------------------
(* The invariant, and what is resolved.                                      *)

LEMMA ResolutionStarts ==
    ASSUME Init
    PROVE  ResolutionInv
  <1>1. document \in Written /\ phase = "roots" /\ at = 1
    BY DEF Init, ResolutionInit
  <1>2. /\ query = [fragments |-> <<>>, operations |-> <<>>, selections |-> <<>>, parents |-> <<>>,
                    sets |-> [p \in {} |-> <<>>]]
        /\ frames = <<>> /\ item_of = <<>> /\ made_for = <<>>
    BY DEF Init, ResolutionInit
  <1>3. Roots(query) = {}
    BY <1>2 DEF Roots
  <1>4. NothingSelected
    <2>1. IsSequence(<<>>)
      BY DEF IsSequence
    <2>2. query.fragments = <<>> /\ query.operations = <<>> /\ query.sets = [p \in {} |-> <<>>]
      BY <1>2
    <2> QED
      BY <1>2, <1>3, <2>1, <2>2 DEF NothingSelected
  <1>5. at \in 1..Len(document) + 1
    BY <1>1, DocumentIs
  <1> QED
    BY <1>1, <1>4, <1>5 DEF ResolutionInv, Ended

LEMMA ResolutionStays ==
    ASSUME ResolutionInv, UNCHANGED rvars
    PROVE  ResolutionInv'
  <1>1. UNCHANGED <<document, phase, at, frames, query, item_of, made_for>>
    BY DEF rvars
  <1>2. Working => Working'
    BY <1>1, WorkingStays
  <1>3. NothingSelected => NothingSelected'
    BY <1>1 DEF NothingSelected
  <1> QED
    BY <1>1, <1>2, <1>3 DEF ResolutionInv, Ended

LEMMA ResolutionSteps ==
    ASSUME ResolutionInv, [Next]_vars
    PROVE  ResolutionInv'
  <1>1. CASE CreateFragment
    BY <1>1, CreateFragmentKeeps
  <1>2. CASE CreateOperation
    BY <1>2, CreateOperationKeeps
  <1>3. CASE RootsCreated
    BY <1>3, RootsCreatedKeeps
  <1>4. CASE BeginDefinition
    BY <1>4, BeginDefinitionKeeps
  <1>5. CASE SelectTypename
    BY <1>5, TypenameKeeps
  <1>6. CASE SelectField
    BY <1>6, FieldKeeps
  <1>7. CASE SelectInlineFragment
    BY <1>7, InlineFragmentKeeps
  <1>8. CASE SelectFragmentSpread
    BY <1>8, FragmentSpreadKeeps
  <1>9. CASE ReturnFromSelection
    BY <1>9, ReturnKeeps
  <1>10. CASE SelectionsResolved
    BY <1>10, SelectionsResolvedKeeps
  <1>11. CASE validate_typename_presence
    <2>1. PICK outcome \in {"conditions", "error", "overflow"} : EndsWith(outcome)
      BY <1>11, Zenon DEF validate_typename_presence
    <2>2. phase \in Ended
      BY <1>11 DEF validate_typename_presence, Ended
    <2> QED
      BY <2>1, <2>2, EndKeepsInv DEF Ended
  <1>12. CASE validate_type_conditions
    <2>1. PICK outcome \in {"resolved", "error"} : EndsWith(outcome)
      BY <1>12, Zenon DEF validate_type_conditions
    <2>2. phase \in Ended
      BY <1>12 DEF validate_type_conditions, Ended
    <2> QED
      BY <2>1, <2>2, EndKeepsInv DEF Ended
  <1>13. CASE UNCHANGED rvars
    BY <1>13, ResolutionStays
  <1>14. CASE \/ SelectOperation \/ VisitField \/ VisitInlineFragment \/ VisitFragmentSpread
              \/ VisitTypename \/ RenderNext \/ CalculateSelection \/ Rendered
    <2>1. UNCHANGED rvars
      BY <1>14 DEF SelectOperation, VisitField, VisitInlineFragment, VisitFragmentSpread,
                   VisitTypename, Walked, RenderNext, CalculateSelection, Rendered
    <2> QED
      BY <2>1, <1>13
  <1>15. CASE UNCHANGED vars
    BY <1>15, <1>13 DEF vars
  <1> QED
    BY <1>1, <1>2, <1>3, <1>4, <1>5, <1>6, <1>7, <1>8, <1>9, <1>10, <1>11, <1>12, <1>14, <1>15
       DEF Next

\* At every moment the selections made, the sets they are in and the calls under way
\* make up what is written in the definitions met so far: the selections are numbered
\* as they are met and put in their parent's set as they are resolved
\* (query.rs:483, query/selection.rs).
THEOREM ResolutionHolds == Spec => []ResolutionInv
  <1>1. Init => ResolutionInv
    BY ResolutionStarts
  <1>2. ResolutionInv /\ [Next]_vars => ResolutionInv'
    BY ResolutionSteps
  <1> QED
    BY <1>1, <1>2, PTL DEF Spec

\* The sets and the selections of a document that is resolved, when the validation
\* begins.
LEMMA ResolvedSets ==
    ASSUME ResolutionInv, phase \in Ended, NEW p \in DOMAIN query.sets
    PROVE  /\ Len(SetOf(p)) = Len(ItemsOf(p))
           /\ \A i \in DOMAIN SetOf(p) :
                LET id == SetOf(p)[i] IN
                /\ query.parents[id] = p
                /\ item_of[id] = ItemsOf(p)[i]
                /\ MadeOf(id, ItemsOf(p)[i])
  <1>1. /\ Recorded(query, item_of, made_for, Wants) /\ Placed(query, <<>>)
        /\ Filled(query, <<>>, item_of, Wants) /\ Made /\ frames = <<>>
        /\ document \in Written /\ at = Len(document) + 1
    BY DEF ResolutionInv, Working, Building
  <1>2. p \in Roots(query) \cup Inner(query) /\ SetOf(p) \in Seq(Nat)
    BY <1>1 DEF Recorded, SetOf
  <1>3. Wants[p] = ItemsOf(p)
    <2>1. Met(p) = Len(document)
      BY <1>1, DocumentIs DEF Met
    <2>2. Want(p) = ItemsOf(p)
      BY <2>1 DEF Want, RootWant, ItemsOf, WrittenIn
    <2> QED
      BY <1>2, <2>2 DEF Wants
  <1>4. /\ Len(SetOf(p)) = Len(ItemsOf(p))
        /\ \A i \in 1..Len(SetOf(p)) : item_of[SetOf(p)[i]] = ItemsOf(p)[i]
    <2>1. Len(<<>>) = 0 /\ 1..0 = {}
      OBVIOUS
    <2> QED
      BY <1>1, <1>2, <1>3, <2>1 DEF Filled, SetOf
  <1>5. \A i \in 1..Len(SetOf(p)) : SetOf(p)[i] \in Ids(query) /\ query.parents[SetOf(p)[i]] = p
    BY <1>1, <1>2 DEF Placed, SetOf
  <1>6. Ids(query) = DOMAIN query.selections
    BY <1>1, SequenceIs DEF Recorded, Ids
  <1>7. DOMAIN SetOf(p) = 1..Len(SetOf(p))
    BY <1>2
  <1> QED
    BY <1>1, <1>4, <1>5, <1>6, <1>7 DEF Made

LEMMA ResolvedSelections ==
    ASSUME ResolutionInv, phase \in Ended, NEW id \in DOMAIN query.selections
    PROVE  LET set == SetOf(query.parents[id]) IN
           \E i \in DOMAIN set : set[i] = id /\ \A j \in DOMAIN set : set[j] = id => j = i
  <1>1. /\ Recorded(query, item_of, made_for, Wants) /\ Placed(query, <<>>) /\ Rooted(query, made_for)
    BY DEF ResolutionInv, Working, Building
  <1>2. id \in Ids(query)
    BY <1>1, SequenceIs DEF Recorded, Ids
  <1>3. PICK p, set : p = query.parents[id] /\ set = SetOf(p)
    OBVIOUS
  <1>4. p \in Roots(query) \cup Inner(query)
    BY <1>1, <1>2, <1>3 DEF Rooted
  <1>5. set \in Seq(Nat)
    BY <1>1, <1>3, <1>4 DEF Recorded, SetOf
  <1>6. \E i \in 1..Len(set) : set[i] = id
    <2>1. Len(<<>>) = 0 /\ 2..0 = {}
      OBVIOUS
    <2> QED
      BY <1>1, <1>2, <1>3, <2>1 DEF Placed, SetOf
  <1>7. \A i, k \in 1..Len(set) : set[k] = set[i] => k = i
    BY <1>1, <1>3, <1>4 DEF Placed, SetOf
  <1>8. DOMAIN set = 1..Len(set)
    BY <1>5
  <1> QED
    BY <1>3, <1>6, <1>7, <1>8

\* What has been resolved is the document, whatever the schema and the documents:
\* every selection set has the items written there and no other, in their order, and
\* every selection is in the set of the one parent the index has for it, once
\* (query.rs:483, query.rs:523, query.rs:531).
THEOREM ResolvedHolds == Spec => []ResolvedAsWritten
  <1>1. ResolutionInv => ResolvedAsWritten
    BY ResolvedSets, ResolvedSelections DEF ResolvedAsWritten, Ended
  <1> QED
    BY <1>1, ResolutionHolds, PTL

------------------------------------------------------------------------------
(* The walk over the types used.                                             *)

\* The definitions the walk has entered.
Searched == {<<"Operation", operation[1]>>} \cup {<<"Fragment", f>> : f \in used.fragments}

\* S has what is selected inside its selections.
HasInside(S) == \A id \in S : ToSet(subselection(id)) \subseteq S

\* A spread is noted, and the type of a field, or it stands in every set that has what
\* the walk has still to visit and what is inside.
Noticed(S) ==
  \A id \in Ids(query) : made_for[id] \in Searched /\ id \notin S =>
    /\ Node(id)[1] = "FragmentSpread" => Node(id)[2] \in used.fragments
    /\ Node(id)[1] = "Field" => FieldType(id) \in used.types

WalkInv ==
  /\ operation = <<>> => walk = <<>> /\ used.fragments = {}
  /\ operation # <<>> =>
       /\ phase = "resolved"
       /\ operation = <<operation[1]>> /\ operation[1] \in DOMAIN query.operations
       /\ walk \in Seq(Ids(query))
       /\ used.fragments \subseteq DOMAIN query.fragments
       /\ \A id \in ToSet(walk) : made_for[id] \in Searched
       /\ \A S \in SUBSET Ids(query) : HasInside(S) /\ ToSet(walk) \subseteq S => Noticed(S)

LEMMA WalkedSequence ==
    ASSUME NEW X, NEW s \in Seq(X), s # <<>>, NEW t \in Seq(X)
    PROVE  /\ t \o Tail(s) \in Seq(X) /\ ToSet(t \o Tail(s)) = ToSet(t) \cup ToSet(Tail(s))
           /\ ToSet(s) = {Head(s)} \cup ToSet(Tail(s)) /\ Head(s) \in X
           /\ t # <<>> => t \o Tail(s) # <<>>
  <1>1. /\ Tail(s) \in Seq(X) /\ Head(s) \in X /\ Head(s) = s[1] /\ Len(Tail(s)) = Len(s) - 1
        /\ \A i \in 1..Len(Tail(s)) : Tail(s)[i] = s[i + 1]
        /\ Len(s) \in Nat \ {0} /\ DOMAIN s = 1..Len(s)
    BY HeadTailProperties, EmptySeq
  <1>2. PICK n \in Nat \ {0} : n = Len(s)
    BY <1>1
  <1>3. ToSet(s) = {Head(s)} \cup ToSet(Tail(s))
    <2>1. PICK r : r = Tail(s)
      OBVIOUS
    <2>2. /\ r \in Seq(X) /\ Len(r) = n - 1 /\ \A i \in 1..n - 1 : r[i] = s[i + 1]
          /\ DOMAIN s = 1..n
      BY <1>1, <1>2, <2>1
    <2>3. DOMAIN r = 1..n - 1
      BY <2>2
    <2>4. ASSUME NEW i \in 1..n
          PROVE  s[i] = Head(s) \/ s[i] \in ToSet(r)
      <3>1. CASE i = 1
        BY <1>1, <3>1
      <3>2. CASE i # 1
        <4>1. PICK j \in 1..n - 1 : j + 1 = i
          <5>1. i - 1 \in 1..n - 1 /\ (i - 1) + 1 = i
            BY <3>2
          <5> QED
            BY <5>1
        <4>2. r[j] = s[i] /\ j \in DOMAIN r
          BY <2>2, <2>3, <4>1
        <4> QED
          BY <4>2 DEF ToSet
      <3> QED
        BY <3>1, <3>2
    <2>5. ASSUME NEW j \in 1..n - 1
          PROVE  r[j] \in ToSet(s)
      <3>1. r[j] = s[j + 1] /\ j + 1 \in DOMAIN s
        BY <2>2
      <3> QED
        BY <3>1 DEF ToSet
    <2>6. Head(s) \in ToSet(s)
      BY <1>1, <1>2, <2>2 DEF ToSet
    <2>7. ToSet(s) \subseteq {Head(s)} \cup ToSet(r)
      BY <2>2, <2>4 DEF ToSet
    <2>8. ToSet(r) \subseteq ToSet(s)
      <3>1. \A x \in ToSet(r) : \E j \in 1..n - 1 : x = r[j]
        BY <2>3 DEF ToSet
      <3> QED
        BY <2>5, <3>1
    <2> QED
      BY <2>1, <2>6, <2>7, <2>8
  <1>4. PICK r : r = Tail(s)
    OBVIOUS
  <1>5. /\ t \o r \in Seq(X) /\ Len(t \o r) = Len(t) + Len(r)
        /\ \A i \in 1..Len(t) + Len(r) : (t \o r)[i] = IF i <= Len(t) THEN t[i] ELSE r[i - Len(t)]
    BY <1>1, <1>4, ConcatProperties
  <1>6. PICK a \in Nat, b \in Nat : a = Len(t) /\ b = Len(r)
    <2>1. Len(t) \in Nat /\ Len(r) \in Nat
      BY <1>1, <1>4
    <2> QED
      BY <2>1, Zenon
  <1>7. ToSet(t \o r) = ToSet(t) \cup ToSet(r)
    <2>1. DOMAIN (t \o r) = 1..a + b /\ DOMAIN t = 1..a /\ DOMAIN r = 1..b
      BY <1>1, <1>4, <1>5, <1>6
    <2>2. ASSUME NEW i \in 1..a
          PROVE  (t \o r)[i] = t[i] /\ i \in 1..a + b
      BY <1>5, <1>6
    <2>3. ASSUME NEW i \in 1..b
          PROVE  (t \o r)[a + i] = r[i] /\ a + i \in 1..a + b
      <3>1. a + i \in 1..a + b /\ ~(a + i <= a) /\ a + i - a = i
        OBVIOUS
      <3> QED
        BY <1>5, <1>6, <3>1
    <2>4. ASSUME NEW i \in 1..a + b
          PROVE  i \in 1..a \/ \E j \in 1..b : i = a + j
      <3>1. i \in 1..a \/ (i - a \in 1..b /\ i = a + (i - a))
        OBVIOUS
      <3> QED
        BY <3>1
    <2>5. PICK u : u = t \o r
      OBVIOUS
    <2>6. ToSet(u) \subseteq ToSet(t) \cup ToSet(r)
      <3>1. ASSUME NEW i \in 1..a + b
            PROVE  (\E j \in 1..a : u[i] = t[j]) \/ (\E j \in 1..b : u[i] = r[j])
        BY <2>2, <2>3, <2>4, <2>5
      <3> QED
        BY <2>1, <2>5, <3>1 DEF ToSet
    <2>7. ToSet(t) \cup ToSet(r) \subseteq ToSet(u)
      BY <2>1, <2>2, <2>3, <2>5 DEF ToSet
    <2> QED
      BY <2>5, <2>6, <2>7
  <1>8. t # <<>> => t \o r # <<>>
    BY <1>1, <1>4, ConcatEqualIffEmpty, <1>5, <1>6
  <1> QED
    BY <1>1, <1>3, <1>4, <1>5, <1>7, <1>8

\* The set of a parent has selections made for the same root.
LEMMA SetsAre ==
    ASSUME ResolutionInv, phase \in Ended, NEW p \in Roots(query) \cup Inner(query)
    PROVE  /\ SetOf(p) \in Seq(Ids(query))
           /\ \A id \in ToSet(SetOf(p)) :
                /\ p \in Roots(query) => made_for[id] = p
                /\ p \in Inner(query) => made_for[id] = made_for[p[2]]
  <1>1. /\ Recorded(query, item_of, made_for, Wants) /\ Placed(query, frames) /\ Rooted(query, made_for)
    BY DEF ResolutionInv, Working, Building
  <1>2. SetOf(p) \in Seq(Nat) /\ DOMAIN SetOf(p) = 1..Len(SetOf(p))
    BY <1>1 DEF Recorded, SetOf
  <1>3. \A i \in 1..Len(SetOf(p)) : SetOf(p)[i] \in Ids(query) /\ query.parents[SetOf(p)[i]] = p
    BY <1>1 DEF Placed, SetOf
  <1>4. SetOf(p) \in Seq(Ids(query))
    BY <1>2, <1>3
  <1>5. ASSUME NEW id \in ToSet(SetOf(p))
        PROVE  id \in Ids(query) /\ query.parents[id] = p
    BY <1>2, <1>3 DEF ToSet
  <1>6. Roots(query) \cap Inner(query) = {}
    <2>1. \A x \in Roots(query) : x[1] \in {"Fragment", "Operation"}
      BY DEF Roots
    <2>2. \A x \in Inner(query) : x[1] \in Kinds
      BY <1>1 DEF Inner, Recorded
    <2> QED
      BY <2>1, <2>2 DEF Kinds
  <1> QED
    BY <1>1, <1>4, <1>5, <1>6 DEF Rooted

\* A __typename and a spread have nothing inside.
LEMMA NothingInside ==
    ASSUME ResolutionInv, phase \in Ended, NEW id \in Ids(query),
           Node(id)[1] \in {"Typename", "FragmentSpread"}
    PROVE  subselection(id) = <<>>
  <1>1. PICK p : p = AsParent(id)
    OBVIOUS
  <1>2. p \in Inner(query) /\ p[1] = Node(id)[1]
    BY <1>1 DEF AsParent, Inner, Node
  <1>3. Recorded(query, item_of, made_for, Wants)
    BY DEF ResolutionInv, Working, Building
  <1>4. p \in DOMAIN query.sets /\ SetOf(p) \in Seq(Nat)
    BY <1>2, <1>3 DEF Recorded, SetOf
  <1>5. ItemsOf(p) = <<>>
    BY <1>2 DEF ItemsOf
  <1>6. Len(SetOf(p)) = 0
    BY <1>4, <1>5, ResolvedSets
  <1>7. SetOf(p) = <<>>
    BY <1>4, <1>6, EmptySeq
  <1> QED
    BY <1>1, <1>7 DEF subselection

\* A set that has what is selected in a root, and what is inside its selections, has all
\* that is made for the root.
LEMMA InsideRoot ==
    ASSUME ResolutionInv, phase \in Ended, NEW r \in Roots(query), NEW S \in SUBSET Ids(query),
           HasInside(S), ToSet(SetOf(r)) \subseteq S, NEW id \in Ids(query), made_for[id] = r
    PROVE  id \in S
  <1> DEFINE T == {x \in Ids(query) : made_for[x] = r /\ x \notin S}
  <1>1. SUFFICES ASSUME T # {}
                 PROVE  FALSE
    OBVIOUS
  <1>2. Ids(query) \subseteq Nat
    BY DEF Ids
  <1>3. PICK x \in T : \A y \in T : x <= y
    BY <1>1, <1>2, LeastNumber
  <1>4. x \in Ids(query) /\ made_for[x] = r /\ x \notin S
    BY <1>3
  <1>5. /\ Recorded(query, item_of, made_for, Wants) /\ Placed(query, <<>>) /\ Rooted(query, made_for)
    BY DEF ResolutionInv, Working, Building
  <1>6. PICK p : p = query.parents[x]
    OBVIOUS
  <1>7. x \in ToSet(SetOf(p))
    <2>1. SetOf(p) \in Seq(Nat)
      BY <1>4, <1>5, <1>6 DEF Recorded, Rooted, SetOf
    <2>2. Len(<<>>) = 0 /\ 2..0 = {}
      OBVIOUS
    <2>3. \E i \in 1..Len(SetOf(p)) : SetOf(p)[i] = x
      BY <1>4, <1>5, <1>6, <2>2 DEF Placed, SetOf
    <2> QED
      BY <2>1, <2>3 DEF ToSet
  <1>8. CASE p \in Roots(query) /\ made_for[x] = p
    BY <1>4, <1>7, <1>8
  <1>9. CASE p \in Inner(query) /\ p[2] < x /\ made_for[x] = made_for[p[2]]
    <2>1. PICK y \in Ids(query) : p = <<query.selections[y][1], y>>
      BY <1>9 DEF Inner
    <2>2. p = AsParent(y) /\ p[2] = y
      BY <2>1 DEF AsParent, Node
    <2>3. y \in S
      <3>1. made_for[y] = r /\ ~(x <= y)
        BY <1>2, <1>4, <1>9, <2>1, <2>2
      <3> QED
        BY <1>3, <2>1, <3>1
    <2>4. x \in ToSet(subselection(y))
      BY <1>7, <2>2 DEF subselection
    <2> QED
      BY <1>4, <2>3, <2>4 DEF HasInside
  <1> QED
    BY <1>4, <1>5, <1>6, <1>8, <1>9 DEF Rooted

\* The walk goes on with a sequence of selections for the one it visits.
Walking(h, inside) ==
  /\ ResolutionInv /\ WalkInv /\ operation # <<>> /\ walk # <<>> /\ h = Head(walk)
  /\ inside \in Seq(Ids(query)) /\ walk' = inside \o Tail(walk)
  /\ UNCHANGED <<rvars, operation>>

LEMMA WalkingIs ==
    ASSUME NEW h, NEW inside, Walking(h, inside)
    PROVE  /\ h \in Ids(query) /\ made_for[h] \in Searched
           /\ walk' \in Seq(Ids(query)) /\ ToSet(walk') = ToSet(inside) \cup ToSet(Tail(walk))
           /\ ToSet(walk) = {h} \cup ToSet(Tail(walk))
           /\ inside # <<>> => walk' # <<>>
           /\ UNCHANGED <<phase, query, made_for, operation>>
           /\ phase = "resolved" /\ phase \in Ended
  <1>1. walk \in Seq(Ids(query)) /\ phase = "resolved" /\ \A id \in ToSet(walk) : made_for[id] \in Searched
    BY DEF Walking, WalkInv
  <1>2. walk # <<>> /\ h = Head(walk) /\ inside \in Seq(Ids(query)) /\ walk' = inside \o Tail(walk)
        /\ UNCHANGED <<phase, query, made_for, operation>>
    BY DEF Walking, rvars
  <1>3. /\ walk' \in Seq(Ids(query)) /\ ToSet(walk') = ToSet(inside) \cup ToSet(Tail(walk))
        /\ ToSet(walk) = {h} \cup ToSet(Tail(walk)) /\ h \in Ids(query)
        /\ inside # <<>> => walk' # <<>>
    BY <1>1, <1>2, WalkedSequence
  <1> QED
    BY <1>1, <1>2, <1>3 DEF Ended

\* A selection visited is left for what is inside it: a spread only when it is noted.
LEMMA VisitKeeps ==
    ASSUME NEW h, Walking(h, subselection(h)),
           used'.fragments = used.fragments, used.types \subseteq used'.types,
           Node(h)[1] = "FragmentSpread" => Node(h)[2] \in used.fragments,
           Node(h)[1] = "Field" => FieldType(h) \in used'.types
    PROVE  WalkInv'
  <1>1. /\ h \in Ids(query) /\ made_for[h] \in Searched
        /\ walk' \in Seq(Ids(query)) /\ ToSet(walk') = ToSet(subselection(h)) \cup ToSet(Tail(walk))
        /\ ToSet(walk) = {h} \cup ToSet(Tail(walk))
        /\ UNCHANGED <<phase, query, made_for, operation>>
        /\ phase = "resolved" /\ phase \in Ended
    BY WalkingIs
  <1>2. /\ ResolutionInv /\ operation # <<>>
        /\ operation = <<operation[1]>> /\ operation[1] \in DOMAIN query.operations
        /\ used.fragments \subseteq DOMAIN query.fragments
        /\ \A id \in ToSet(walk) : made_for[id] \in Searched
        /\ \A S \in SUBSET Ids(query) : HasInside(S) /\ ToSet(walk) \subseteq S => Noticed(S)
    BY DEF Walking, WalkInv
  <1>3. /\ Searched' = Searched
        /\ \A id : /\ subselection(id)' = subselection(id) /\ Node(id)' = Node(id)
                   /\ FieldType(id)' = FieldType(id)
    BY <1>1 DEF Searched, subselection, SetOf, AsParent, Node, FieldType
  <1>4. \A id \in ToSet(subselection(h)) : made_for[id] \in Searched
    <2>1. PICK p : p = AsParent(h)
      OBVIOUS
    <2>2. p \in Inner(query) /\ p[2] = h
      BY <1>1, <2>1 DEF AsParent, Node, Inner
    <2>3. \A id \in ToSet(SetOf(p)) : made_for[id] = made_for[h]
      BY <1>1, <1>2, <2>2, SetsAre
    <2> QED
      BY <1>1, <2>1, <2>3 DEF subselection
  <1>5. ASSUME NEW S \in SUBSET Ids(query), HasInside(S), ToSet(walk') \subseteq S
        PROVE  Noticed(S)'
    <2>1. PICK U \in SUBSET Ids(query) : U = S \cup {h}
      BY <1>1
    <2>2. ToSet(walk) \subseteq U
      BY <1>1, <1>5, <2>1
    <2>3. HasInside(U)
      BY <1>1, <1>5, <2>1 DEF HasInside
    <2>4. Noticed(U)
      BY <1>2, <2>2, <2>3
    <2> QED
      BY <1>1, <1>3, <2>1, <2>4 DEF Noticed
  <1>6. \A S : HasInside(S)' = HasInside(S)
    BY <1>3 DEF HasInside
  <1>7. Ids(query)' = Ids(query)
    BY <1>1 DEF Ids
  <1> QED
    BY <1>1, <1>2, <1>3, <1>4, <1>5, <1>6, <1>7 DEF WalkInv

\* A spread not noted yet is left for what its fragment selects.
LEMMA EnterFragmentKeeps ==
    ASSUME NEW h, NEW f, NEW r, Node(h)[1] = "FragmentSpread", Node(h)[2] = f,
           r = <<"Fragment", f>>,
           f \in DOMAIN query.fragments, Walking(h, SetOf(r)),
           used'.fragments = used.fragments \cup {f}, used.types \subseteq used'.types
    PROVE  WalkInv'
  <1>1. /\ h \in Ids(query) /\ made_for[h] \in Searched
        /\ walk' \in Seq(Ids(query)) /\ ToSet(walk') = ToSet(SetOf(r)) \cup ToSet(Tail(walk))
        /\ ToSet(walk) = {h} \cup ToSet(Tail(walk))
        /\ UNCHANGED <<phase, query, made_for, operation>>
        /\ phase = "resolved" /\ phase \in Ended
    BY WalkingIs
  <1>2. /\ ResolutionInv /\ operation # <<>>
        /\ operation = <<operation[1]>> /\ operation[1] \in DOMAIN query.operations
        /\ used.fragments \subseteq DOMAIN query.fragments
        /\ \A id \in ToSet(walk) : made_for[id] \in Searched
        /\ \A S \in SUBSET Ids(query) : HasInside(S) /\ ToSet(walk) \subseteq S => Noticed(S)
    BY DEF Walking, WalkInv
  <1>3. /\ Searched' = Searched \cup {r}
        /\ \A id : /\ subselection(id)' = subselection(id) /\ Node(id)' = Node(id)
                   /\ FieldType(id)' = FieldType(id)
    BY <1>1 DEF Searched, subselection, SetOf, AsParent, Node, FieldType
  <1>4. r \in Roots(query)
    <2>1. IsSequence(query.fragments)
      BY <1>1, <1>2 DEF ResolutionInv, Working, Building, Recorded
    <2> QED
      BY <2>1, SequenceIs DEF Roots
  <1>5. \A id \in ToSet(SetOf(r)) : made_for[id] = r
    BY <1>1, <1>2, <1>4, SetsAre
  <1>6. ASSUME NEW S \in SUBSET Ids(query), HasInside(S), ToSet(walk') \subseteq S
        PROVE  Noticed(S)'
    <2>1. PICK U \in SUBSET Ids(query) : U = S \cup {h}
      BY <1>1
    <2>2. ToSet(walk) \subseteq U
      BY <1>1, <1>6, <2>1
    <2>3. HasInside(U)
      <3>1. subselection(h) = <<>>
        BY <1>1, <1>2, NothingInside
      <3>2. ToSet(subselection(h)) = {}
        BY <3>1 DEF ToSet
      <3> QED
        BY <1>6, <2>1, <3>2 DEF HasInside
    <2>4. Noticed(U)
      BY <1>2, <2>2, <2>3
    <2>5. ASSUME NEW id \in Ids(query), made_for[id] = r
          PROVE  id \in S
      BY <1>1, <1>2, <1>4, <1>6, <2>5, InsideRoot
    <2>6. ASSUME NEW id \in Ids(query), made_for[id] \in Searched \cup {r}, id \notin S
          PROVE  /\ Node(id)[1] = "FragmentSpread" => Node(id)[2] \in used.fragments \cup {f}
                 /\ Node(id)[1] = "Field" => FieldType(id) \in used.types
      <3>1. made_for[id] \in Searched
        BY <2>5, <2>6
      <3>2. CASE id = h
        BY <2>6, <3>2
      <3>3. CASE id # h
        BY <2>1, <2>4, <2>6, <3>1, <3>3 DEF Noticed
      <3> QED
        BY <3>2, <3>3
    <2> QED
      BY <1>1, <1>3, <2>6 DEF Noticed, Ids
  <1>7. \A S : HasInside(S)' = HasInside(S)
    BY <1>3 DEF HasInside
  <1>8. Ids(query)' = Ids(query)
    BY <1>1 DEF Ids
  <1> QED
    BY <1>1, <1>2, <1>3, <1>5, <1>6, <1>7, <1>8 DEF WalkInv

\* The walk begins with what the operation selects.
LEMMA SelectOperationKeeps ==
    ASSUME ResolutionInv, WalkInv, SelectOperation
    PROVE  WalkInv'
  <1>1. PICK op, r :
          /\ op \in DOMAIN query.operations /\ r = <<"Operation", op>>
          /\ operation' = <<op>> /\ walk' = SetOf(r)
    BY DEF SelectOperation, Found
  <1>2. /\ phase = "resolved" /\ phase \in Ended /\ operation = <<>> /\ used.fragments = {}
        /\ UNCHANGED <<phase, query, made_for>> /\ used' = used
    BY DEF SelectOperation, WalkInv, rvars, Ended
  <1>3. r \in Roots(query)
    <2>1. IsSequence(query.operations)
      BY <1>2 DEF ResolutionInv, Working, Building, Recorded
    <2> QED
      BY <1>1, <2>1, SequenceIs DEF Roots
  <1>4. walk' \in Seq(Ids(query)) /\ \A id \in ToSet(walk') : made_for[id] = r
    BY <1>1, <1>2, <1>3, SetsAre
  <1>5. Searched' = {r} /\ \A id : subselection(id)' = subselection(id)
    BY <1>1, <1>2 DEF Searched, subselection, SetOf, AsParent, Node
  <1>6. ASSUME NEW S \in SUBSET Ids(query), HasInside(S), ToSet(walk') \subseteq S
        PROVE  Noticed(S)'
    <2>1. ASSUME NEW id \in Ids(query), made_for[id] = r
          PROVE  id \in S
      BY <1>1, <1>2, <1>3, <1>6, <2>1, InsideRoot
    <2> QED
      BY <1>2, <1>5, <2>1 DEF Noticed, Ids
  <1>7. \A S : HasInside(S)' = HasInside(S)
    BY <1>5 DEF HasInside
  <1>8. Ids(query)' = Ids(query)
    BY <1>2 DEF Ids
  <1> QED
    BY <1>1, <1>2, <1>4, <1>5, <1>6, <1>7, <1>8 DEF WalkInv

\* The steps of the resolution, and those of the walk.
Resolving ==
  \/ CreateFragment \/ CreateOperation \/ RootsCreated \/ BeginDefinition
  \/ SelectTypename \/ SelectField \/ SelectInlineFragment \/ SelectFragmentSpread
  \/ ReturnFromSelection \/ SelectionsResolved
  \/ validate_typename_presence \/ validate_type_conditions
Visiting == VisitField \/ VisitInlineFragment \/ VisitFragmentSpread \/ VisitTypename
Idle == UNCHANGED <<rvars, operation, walk, used>>

LEMMA NextIs ==
    ASSUME [Next]_vars
    PROVE  (Resolving /\ UNCHANGED gvars) \/ SelectOperation \/ Visiting \/ Idle
  <1>1. CASE RenderNext \/ CalculateSelection \/ Rendered \/ UNCHANGED vars
    BY <1>1 DEF RenderNext, CalculateSelection, Rendered, vars, gvars, Idle
  <1> QED
    BY <1>1 DEF Next, Resolving, Visiting

\* The document is not changed once an operation is selected.
LEMMA ResolvingIsOver ==
    ASSUME WalkInv, Resolving
    PROVE  operation = <<>>
  BY DEF WalkInv, Resolving, CreateFragment, CreateOperation, RootsCreated, BeginDefinition,
         SelectTypename, SelectField, SelectInlineFragment, SelectFragmentSpread, HasItem,
         ReturnFromSelection, SelectionsResolved, validate_typename_presence,
         validate_type_conditions

LEMMA UsesIs ==
    ASSUME NEW T, NEW F, Uses(T, F)
    PROVE  used'.fragments = used.fragments \cup F /\ used'.types = used.types \cup T
  BY DEF Uses

\* A visit leaves the selection for what is inside it, or enters a fragment.
LEMMA VisitingIs ==
    ASSUME ResolutionInv, WalkInv, Visiting
    PROVE  /\ operation # <<>> /\ walk # <<>> /\ UNCHANGED <<rvars, operation>>
           /\ \E h :
                \/ /\ Walking(h, subselection(h)) /\ used'.fragments = used.fragments
                   /\ used.types \subseteq used'.types
                   /\ Node(h)[1] = "FragmentSpread" => Node(h)[2] \in used.fragments
                   /\ Node(h)[1] = "Field" => FieldType(h) \in used'.types
                \/ \E f, r :
                     /\ Node(h)[1] = "FragmentSpread" /\ Node(h)[2] = f /\ r = <<"Fragment", f>>
                     /\ f \in DOMAIN query.fragments /\ f \notin used.fragments
                     /\ Walking(h, SetOf(r)) /\ used'.fragments = used.fragments \cup {f}
                     /\ used.types \subseteq used'.types
  <1>1. /\ walk # <<>> /\ operation # <<>> /\ UNCHANGED <<rvars, operation>>
        /\ phase = "resolved" /\ phase \in Ended /\ walk \in Seq(Ids(query))
    <2>1. walk # <<>> /\ UNCHANGED <<rvars, operation>>
      BY DEF Visiting, VisitField, VisitInlineFragment, VisitFragmentSpread, VisitTypename, Visits, Walked
    <2> QED
      BY <2>1 DEF WalkInv, Ended
  <1>2. PICK h, p : h = Head(walk) /\ p = AsParent(h)
    OBVIOUS
  <1>3. h \in Ids(query) /\ Tail(walk) \in Seq(Ids(query))
    BY <1>1, <1>2, HeadTailProperties
  <1>4. subselection(h) \in Seq(Ids(query))
    <2>1. p \in Inner(query)
      BY <1>2, <1>3 DEF AsParent, Node, Inner
    <2>2. SetOf(p) \in Seq(Ids(query))
      BY <1>1, <2>1, SetsAre
    <2> QED
      BY <1>2, <2>2 DEF subselection
  <1>5. ASSUME walk' = subselection(h) \o Tail(walk)
        PROVE  Walking(h, subselection(h))
    BY <1>1, <1>2, <1>4, <1>5 DEF Walking
  <1>6. ASSUME walk' = Tail(walk), Node(h)[1] \in {"Typename", "FragmentSpread"}
        PROVE  Walking(h, subselection(h))
    <2>1. subselection(h) = <<>>
      BY <1>1, <1>3, <1>6, NothingInside
    <2>2. <<>> \o Tail(walk) = Tail(walk)
      BY <1>3, ConcatEmptySeq
    <2> QED
      BY <1>5, <1>6, <2>1, <2>2
  <1>7. CASE VisitField \/ VisitInlineFragment
    <2>1. PICK T : /\ walk' = subselection(h) \o Tail(walk) /\ Uses(T, {})
                   /\ Node(h)[1] \in {"Field", "InlineFragment"}
                   /\ Node(h)[1] = "Field" => T = {FieldType(h)}
      BY <1>2, <1>7 DEF VisitField, VisitInlineFragment, Visits
    <2>2. /\ used'.fragments = used.fragments /\ used.types \subseteq used'.types
          /\ Node(h)[1] = "Field" => FieldType(h) \in used'.types
      <3>1. used'.fragments = used.fragments \cup {} /\ used'.types = used.types \cup T
        BY <2>1, UsesIs
      <3> QED
        BY <2>1, <3>1
    <2> QED
      BY <1>1, <1>5, <2>1, <2>2
  <1>8. CASE VisitTypename
    <2>1. walk' = Tail(walk) /\ used' = used /\ Node(h)[1] = "Typename"
      BY <1>2, <1>8 DEF VisitTypename, Visits
    <2> QED
      BY <1>1, <1>6, <2>1
  <1>9. CASE VisitFragmentSpread
    <2>1. PICK f, r : f = Node(h)[2] /\ r = <<"Fragment", f>>
      OBVIOUS
    <2>2. Node(h)[1] = "FragmentSpread"
      BY <1>2, <1>9 DEF VisitFragmentSpread, Visits
    <2>3. CASE f \in used.fragments
      <3>1. walk' = Tail(walk) /\ used' = used
        BY <1>2, <1>9, <2>1, <2>3 DEF VisitFragmentSpread
      <3> QED
        BY <1>1, <1>6, <2>1, <2>2, <2>3, <3>1
    <2>4. CASE f \notin used.fragments
      <3>1. /\ walk' = SetOf(r) \o Tail(walk) /\ used'.fragments = used.fragments \cup {f}
            /\ used.types \subseteq used'.types
        <4>1. walk' = SetOf(r) \o Tail(walk) /\ Uses({}, {f})
          BY <1>2, <1>9, <2>1, <2>4 DEF VisitFragmentSpread
        <4> QED
          BY <4>1, UsesIs
      <3>2. Recorded(query, item_of, made_for, Wants) /\ SpreadsKnown
        BY <1>1 DEF ResolutionInv, Working, Building
      <3>3. f \in DOMAIN query.fragments
        <4>1. h \in DOMAIN query.selections
          BY <1>3, <3>2, SequenceIs DEF Recorded, Ids
        <4> QED
          BY <2>1, <2>2, <3>2, <4>1 DEF SpreadsKnown
      <3>4. r \in Roots(query)
        BY <2>1, <3>2, <3>3, SequenceIs DEF Recorded, Roots
      <3>5. SetOf(r) \in Seq(Ids(query))
        BY <1>1, <3>4, SetsAre
      <3>6. Walking(h, SetOf(r))
        BY <1>1, <1>2, <3>1, <3>5 DEF Walking
      <3> QED
        BY <1>1, <2>1, <2>2, <2>4, <3>1, <3>3, <3>6
    <2> QED
      BY <2>3, <2>4
  <1> QED
    BY <1>7, <1>8, <1>9 DEF Visiting

LEMMA WalkSteps ==
    ASSUME ResolutionInv, WalkInv, [Next]_vars
    PROVE  WalkInv'
  <1>1. CASE Resolving /\ UNCHANGED gvars
    <2>1. operation' = <<>> /\ walk' = <<>> /\ used'.fragments = {}
      BY <1>1, ResolvingIsOver DEF gvars, WalkInv
    <2> QED
      BY <2>1 DEF WalkInv
  <1>2. CASE SelectOperation
    BY <1>2, SelectOperationKeeps
  <1>3. CASE Visiting
    BY <1>3, VisitingIs, VisitKeeps, EnterFragmentKeeps
  <1>4. CASE Idle
    <2>1. UNCHANGED <<phase, query, made_for, operation, walk, used>>
      BY <1>4 DEF Idle, rvars
    <2>2. /\ Searched' = Searched
          /\ \A id : /\ subselection(id)' = subselection(id) /\ Node(id)' = Node(id)
                     /\ FieldType(id)' = FieldType(id)
      BY <2>1 DEF Searched, subselection, SetOf, AsParent, Node, FieldType
    <2>3. Ids(query)' = Ids(query) /\ \A S : HasInside(S)' = HasInside(S)
      BY <2>1, <2>2 DEF Ids, HasInside
    <2>4. \A S : Noticed(S)' = Noticed(S)
      BY <2>1, <2>2, <2>3 DEF Noticed
    <2> QED
      BY <2>1, <2>2, <2>3, <2>4 DEF WalkInv
  <1> QED
    BY <1>1, <1>2, <1>3, <1>4, NextIs

LEMMA WalkHolds == Spec => [](ResolutionInv /\ WalkInv)
  <1>1. Init => WalkInv
    BY DEF Init, WalkInv
  <1>2. ResolutionInv /\ WalkInv /\ [Next]_vars => WalkInv'
    BY WalkSteps
  <1> QED
    BY <1>1, <1>2, ResolutionHolds, PTL DEF Spec

------------------------------------------------------------------------------
(* Every fragment is written in the document, and selects something.         *)

FragmentsAreWritten ==
  \A f \in DOMAIN query.fragments : \E i \in 1..Len(document) :
    document[i][1] = "Fragment" /\ NameOf(document[i]) = query.fragments[f].name

LEMMA ConcatNonEmpty ==
    ASSUME NEW X, NEW s \in Seq(X), NEW t \in Seq(X), s # <<>> \/ t # <<>>
    PROVE  s \o t # <<>>
  <1>1. Len(s \o t) = Len(s) + Len(t) /\ Len(s) \in Nat /\ Len(t) \in Nat
    BY ConcatProperties
  <1>2. Len(s) > 0 \/ Len(t) > 0
    BY EmptySeq
  <1>3. Len(s \o t) # 0
    BY <1>1, <1>2
  <1> QED
    BY <1>3, EmptySeq

LEMMA UnderGrows ==
    ASSUME document \in Written, NEW i \in 1..Len(document), NEW kind, NEW name,
           document[i][1] = kind, NameOf(document[i]) = name
    PROVE  ItemsUnder(kind, name)[Len(document)] # <<>>
  <1>0. PICK N \in Nat : N = Len(document)
    BY DocumentIs
  <1>1. PICK U : N = Len(document) /\ U = ItemsUnder(kind, name)
    BY <1>0
  <1>2. /\ \A j \in 0..N : U[j] \in Seq(Items)
        /\ \A j \in 1..N : U[j] = U[j - 1] \o ItemsFor(document[j], kind, name)
    BY <1>1, UnderIs
  <1>3. \A j \in 1..N : ItemsFor(document[j], kind, name) \in Seq(Items)
    BY <1>1, DocumentIs, EmptySeq DEF ItemsFor
  <1>4. \A j \in 1..N : U[j - 1] # <<>> => U[j] # <<>>
    <2>1. ASSUME NEW j \in 1..N, U[j - 1] # <<>>
          PROVE  U[j] # <<>>
      <3>1. j - 1 \in 0..N
        OBVIOUS
      <3>2. PICK s \in Seq(Items), t \in Seq(Items) :
              s = U[j - 1] /\ t = ItemsFor(document[j], kind, name)
        BY <1>2, <1>3, <3>1
      <3>3. U[j] = s \o t /\ s # <<>>
        BY <1>2, <2>1, <3>2
      <3> QED
        BY <3>3, ConcatNonEmpty
    <2> QED
      BY <2>1
  <1>5. i \in 1..N /\ i \in Nat /\ N - i \in Nat
    BY <1>1
  <1>6. U[i] # <<>>
    <2>1. ItemsFor(document[i], kind, name) # <<>>
      BY <1>1, DocumentIs DEF ItemsFor
    <2>2. i - 1 \in 0..N
      BY <1>5
    <2>3. PICK s \in Seq(Items), t \in Seq(Items) :
            s = U[i - 1] /\ t = ItemsFor(document[i], kind, name)
      BY <1>2, <1>3, <1>5, <2>2
    <2>4. U[i] = s \o t /\ t # <<>>
      BY <1>2, <1>5, <2>1, <2>3
    <2> QED
      BY <2>4, ConcatNonEmpty
  <1> DEFINE P == {k \in 0..N - i : U[i + k] # <<>>}
  <1>7. 0 \in P
    <2>1. 0 \in 0..N - i /\ i + 0 = i
      BY <1>5
    <2> QED
      BY <1>6, <2>1
  <1>8. \A k \in 0..(N - i) - 1 : k \in P => k + 1 \in P
    <2>1. ASSUME NEW k \in 0..(N - i) - 1, k \in P
          PROVE  k + 1 \in P
      <3>1. /\ k + 1 \in 0..N - i /\ i + (k + 1) \in 1..N /\ i + (k + 1) - 1 = i + k
        BY <1>5
      <3>2. U[i + k] # <<>>
        BY <2>1
      <3>3. U[i + (k + 1)] # <<>>
        BY <1>4, <3>1, <3>2, SMTT(40)
      <3> QED
        BY <3>1, <3>3
    <2> QED
      BY <2>1
  <1> HIDE DEF P
  <1>9. 0..N - i \subseteq P
    BY <1>5, <1>7, <1>8, IntervalInduction
  <1>10. N - i \in P
    BY <1>5, <1>9
  <1>11. i + (N - i) = N
    BY <1>5
  <1> QED
    BY <1>1, <1>10, <1>11 DEF P

\* Only create_roots makes fragments.
LEMMA FragmentsStay ==
    ASSUME ResolutionInv, [Next]_vars, ~CreateFragment
    PROVE  query'.fragments = query.fragments
  <1>1. PICK q, F, O, S, T, V :
          /\ q = query /\ F = query.fragments /\ O = query.operations /\ S = query.selections
          /\ T = query.parents /\ V = query.sets
    OBVIOUS
  <1>2. ASSUME NEW kind, NEW node, HasItem(kind), node[1] \in Kinds,
               Select(node) \/ \E on, items : SelectAndEnter(node, on, items)
        PROVE  query'.fragments = query.fragments
    <2>1. PICK n, k : n = Len(query.selections) /\ k = <<node[1], n + 1>>
      OBVIOUS
    <2>2. Working
      BY <1>2 DEF ResolutionInv, HasItem
    <2>3. Larger(query, n, k, node, Top.parent, query')
      BY <1>2, <2>1, <2>2, StepIsLarger
    <2> QED
      BY <2>3 DEF Larger
  <1>3. ASSUME NEW outcome, EndsWith(outcome)
        PROVE  query'.fragments = query.fragments
    BY <1>3 DEF EndsWith
  <1>4. CASE CreateOperation
    <2>1. CASE query' = query
      BY <2>1
    <2>2. CASE query' # query
      <3>1. PICK e, k : query' = [query EXCEPT !.operations = Append(@, e), !.sets = WithSet(@, k)]
        BY <1>4, <2>2 DEF CreateOperation, EndsWith
      <3>2. q = [fragments |-> F, operations |-> O, selections |-> <<>>, parents |-> <<>>, sets |-> V]
        BY <1>1, <1>4 DEF CreateOperation, ResolutionInv, NothingSelected
      <3>3. PICK L, W : L = Append(O, e) /\ W = WithSet(V, k)
        OBVIOUS
      <3>4. PICK r : r = [q EXCEPT !.operations = L]
        OBVIOUS
      <3>5. r = [fragments |-> F, operations |-> L, selections |-> <<>>, parents |-> <<>>, sets |-> V]
        BY <3>2, <3>4
      <3>6. query' = [r EXCEPT !.sets = W]
        BY <1>1, <3>1, <3>3, <3>4, Zenon
      <3> QED
        BY <1>1, <3>5, <3>6
    <2> QED
      BY <2>1, <2>2
  <1>5. CASE SelectTypename
    <2>1. PICK node : node = <<"Typename">>
      OBVIOUS
    <2>2. HasItem("Field") /\ Select(node) /\ node[1] \in Kinds
      BY <1>5, <2>1 DEF SelectTypename, Kinds
    <2> QED
      BY <1>2, <2>2
  <1>6. CASE SelectField
    <2>1. CASE EndsWith("error")
      BY <1>3, <2>1
    <2>2. CASE ~EndsWith("error")
      <3>1. PICK on, items, alias, id : SelectAndEnter(<<"Field", [alias |-> alias, field_id |-> id]>>, on, items)
        BY <1>6, <2>2 DEF SelectField
      <3>2. PICK node : node = <<"Field", [alias |-> alias, field_id |-> id]>>
        OBVIOUS
      <3>3. HasItem("Field") /\ SelectAndEnter(node, on, items) /\ node[1] \in Kinds
        BY <1>6, <3>1, <3>2 DEF SelectField, Kinds
      <3> QED
        BY <1>2, <3>3
    <2> QED
      BY <2>1, <2>2
  <1>7. CASE SelectInlineFragment
    <2>1. CASE EndsWith("error") \/ EndsWith("panic")
      BY <1>3, <2>1
    <2>2. CASE ~(EndsWith("error") \/ EndsWith("panic"))
      <3>1. PICK on, items : SelectAndEnter(<<"InlineFragment", [type_id |-> on]>>, on, items)
        BY <1>7, <2>2 DEF SelectInlineFragment
      <3>2. PICK node : node = <<"InlineFragment", [type_id |-> on]>>
        OBVIOUS
      <3>3. HasItem("InlineFragment") /\ SelectAndEnter(node, on, items) /\ node[1] \in Kinds
        BY <1>7, <3>1, <3>2 DEF SelectInlineFragment, Kinds
      <3> QED
        BY <1>2, <3>3
    <2> QED
      BY <2>1, <2>2
  <1>8. CASE SelectFragmentSpread
    <2>1. CASE EndsWith("error")
      BY <1>3, <2>1
    <2>2. CASE ~EndsWith("error")
      <3>1. PICK f : Select(<<"FragmentSpread", f>>)
        BY <1>8, <2>2 DEF SelectFragmentSpread
      <3>2. PICK node : node = <<"FragmentSpread", f>>
        OBVIOUS
      <3>3. HasItem("FragmentSpread") /\ Select(node) /\ node[1] \in Kinds
        BY <1>8, <3>1, <3>2 DEF SelectFragmentSpread, Kinds
      <3> QED
        BY <1>2, <3>3
    <2> QED
      BY <2>1, <2>2
  <1>9. CASE ReturnFromSelection
    <2>1. CASE query' = query
      BY <2>1
    <2>2. CASE query' # query
      <3>1. PICK p, id : query' = add_to_selection_set(query, p, id)
        BY <1>9, <2>2 DEF ReturnFromSelection
      <3>2. q = [fragments |-> F, operations |-> O, selections |-> S, parents |-> T, sets |-> V]
        BY <1>1, <1>9 DEF ReturnFromSelection, ResolutionInv, Working, Building, Recorded
      <3> QED
        BY <1>1, <3>1, <3>2 DEF add_to_selection_set
    <2> QED
      BY <2>1, <2>2
  <1>10. CASE RootsCreated \/ BeginDefinition \/ SelectionsResolved \/ validate_typename_presence
              \/ validate_type_conditions
    BY <1>10 DEF RootsCreated, BeginDefinition, SelectionsResolved, validate_typename_presence,
                 validate_type_conditions, EndsWith
  <1>11. CASE SelectOperation \/ Visiting \/ Idle
    BY <1>11 DEF SelectOperation, Visiting, VisitField, VisitInlineFragment, VisitFragmentSpread,
                 VisitTypename, Walked, Idle, rvars
  <1> QED
    BY <1>4, <1>5, <1>6, <1>7, <1>8, <1>9, <1>10, <1>11, NextIs DEF Resolving

LEMMA WrittenSteps ==
    ASSUME ResolutionInv, FragmentsAreWritten, [Next]_vars
    PROVE  FragmentsAreWritten'
  <1>1. document' = document
    BY DEF Next, vars, rvars, CreateFragment, CreateOperation, RootsCreated, BeginDefinition,
           SelectTypename, SelectField, SelectInlineFragment, SelectFragmentSpread, Select,
           SelectAndEnter, Noted, ReturnFromSelection, SelectionsResolved,
           validate_typename_presence, validate_type_conditions, EndsWith, SelectOperation,
           VisitField, VisitInlineFragment, VisitFragmentSpread, VisitTypename, Walked,
           RenderNext, CalculateSelection, Rendered
  <1>2. CASE ~CreateFragment
    <2>1. query'.fragments = query.fragments
      BY <1>2, FragmentsStay
    <2> QED
      BY <1>1, <2>1 DEF FragmentsAreWritten, NameOf
  <1>3. CASE CreateFragment
    <2>1. CASE EndsWith("error")
      BY <1>1, <2>1 DEF EndsWith, FragmentsAreWritten, NameOf
    <2>2. CASE ~EndsWith("error")
      <3>1. PICK n, on, e, k, F, O, V, L, W :
              /\ n = document[at][2].name /\ on = document[at][2].type_condition[2]
              /\ e = [name |-> n, on |-> on] /\ k = <<"Fragment", Len(query.fragments) + 1>>
              /\ F = query.fragments /\ O = query.operations /\ V = query.sets
              /\ L = Append(F, e) /\ W = WithSet(V, k)
        OBVIOUS
      <3>2. /\ query' = [query EXCEPT !.fragments = L, !.sets = W]
            /\ at \in DOMAIN document /\ document[at][1] = "Fragment"
            /\ NothingSelected /\ document \in Written
        BY <1>3, <2>2, <3>1 DEF CreateFragment, ResolutionInv
      <3>3. query = [fragments |-> F, operations |-> O, selections |-> <<>>, parents |-> <<>>,
                     sets |-> V]
        BY <3>1, <3>2 DEF NothingSelected
      <3>4. query'.fragments = L
        <4>1. PICK q : q = [query EXCEPT !.fragments = L]
          OBVIOUS
        <4>2. q = [fragments |-> L, operations |-> O, selections |-> <<>>, parents |-> <<>>,
                   sets |-> V]
          BY <3>3, <4>1
        <4>3. query' = [q EXCEPT !.sets = W]
          BY <3>2, <4>1, Zenon
        <4> QED
          BY <4>2, <4>3
      <3>5. /\ DOMAIN F = 1..Len(F) /\ DOMAIN L = 1..Len(F) + 1 /\ Len(F) \in Nat
            /\ \A f \in 1..Len(F) : L[f] = F[f]
            /\ L[Len(F) + 1] = e
        BY <3>1, <3>2, AppendIs, SequenceIs DEF NothingSelected
      <3>6. ASSUME NEW f \in DOMAIN L
            PROVE  \E i \in 1..Len(document) :
                     document[i][1] = "Fragment" /\ NameOf(document[i]) = L[f].name
        <4>1. CASE f = Len(F) + 1
          <5>1. L[f].name = n
            BY <3>1, <3>5, <4>1
          <5>2. NameOf(document[at]) = n
            BY <3>1, <3>2 DEF NameOf
          <5> QED
            BY <3>2, <5>1, <5>2, DocumentIs
        <4>2. CASE f # Len(F) + 1
          <5>1. f \in DOMAIN query.fragments /\ L[f] = query.fragments[f]
            BY <3>1, <3>5, <4>2
          <5> QED
            BY <5>1 DEF FragmentsAreWritten
        <4> QED
          BY <4>1, <4>2
      <3> QED
        BY <1>1, <3>4, <3>6 DEF FragmentsAreWritten, NameOf
    <2> QED
      BY <2>1, <2>2
  <1> QED
    BY <1>2, <1>3

\* The fragment a spread names selects something.
LEMMA FragmentsSelect ==
    ASSUME ResolutionInv, FragmentsAreWritten, phase \in Ended, NEW h \in Ids(query),
           Node(h)[1] = "FragmentSpread", NEW f \in DOMAIN query.fragments, Node(h)[2] = f,
           NEW r, r = <<"Fragment", f>>
    PROVE  SetOf(r) # <<>>
  <1>1. Recorded(query, item_of, made_for, Wants) /\ Made /\ document \in Written
    BY DEF ResolutionInv, Working, Building
  <1>2. FirstOfItsName(query.fragments, f)
    <2>1. h \in DOMAIN query.selections
      BY <1>1, SequenceIs DEF Recorded, Ids
    <2>2. MadeOf(h, item_of[h])
      BY <1>1, <2>1 DEF Made
    <2> QED
      BY <2>2 DEF MadeOf
  <1>3. PICK U, name : name = query.fragments[f].name /\ U = ItemsUnder("Fragment", name)
    OBVIOUS
  <1>4. PICK i \in 1..Len(document) : document[i][1] = "Fragment" /\ NameOf(document[i]) = name
    BY <1>3 DEF FragmentsAreWritten
  <1>5. U[Len(document)] # <<>> /\ U[Len(document)] \in Seq(Items)
    <2>1. Len(document) \in 0..Len(document)
      BY <1>1, DocumentIs
    <2> QED
      BY <1>1, <1>3, <1>4, <2>1, UnderGrows, UnderIs
  <1>6. ItemsOf(r) = U[Len(document)]
    BY <1>2, <1>3 DEF ItemsOf, WrittenIn
  <1>7. r \in DOMAIN query.sets /\ SetOf(r) \in Seq(Nat)
    <2>1. r \in Roots(query)
      BY <1>1, SequenceIs DEF Recorded, Roots
    <2> QED
      BY <1>1, <2>1 DEF Recorded, SetOf
  <1>8. Len(SetOf(r)) = Len(ItemsOf(r))
    BY <1>7, ResolvedSets
  <1>9. Len(U[Len(document)]) # 0
    BY <1>5, EmptySeq
  <1> QED
    BY <1>6, <1>8, <1>9

\* When the walk is over, every fragment spread in what it has entered is noted.
NothingLeft ==
  Resolved =>
    /\ SpreadsIn(<<"Operation", operation[1]>>) \subseteq used.fragments
    /\ \A f \in used.fragments : Spreads[f] \subseteq used.fragments

LEMMA NothingIsLeft ==
    ASSUME ResolutionInv, WalkInv
    PROVE  NothingLeft
  <1>0. SUFFICES ASSUME operation # <<>>, walk = <<>>
                 PROVE  /\ SpreadsIn(<<"Operation", operation[1]>>) \subseteq used.fragments
                        /\ \A f \in used.fragments : Spreads[f] \subseteq used.fragments
    BY DEF NothingLeft, Resolved
  <1>1. /\ phase = "resolved" /\ used.fragments \subseteq DOMAIN query.fragments
        /\ \A S \in SUBSET Ids(query) : HasInside(S) /\ ToSet(walk) \subseteq S => Noticed(S)
    BY <1>0 DEF WalkInv
  <1>2. Noticed({})
    <2>1. ToSet(walk) = {} /\ HasInside({})
      BY <1>0 DEF ToSet, HasInside
    <2> QED
      BY <1>1, <2>1
  <1>3. DOMAIN query.selections = Ids(query)
    <2>1. IsSequence(query.selections)
      BY <1>1 DEF ResolutionInv, Ended, Working, Building, Recorded
    <2> QED
      BY <2>1, SequenceIs DEF Ids
  <1>4. ASSUME NEW r \in Searched
        PROVE  SpreadsIn(r) \subseteq used.fragments
    BY <1>2, <1>3 DEF SpreadsIn, Noticed
  <1>5. ASSUME NEW f \in used.fragments
        PROVE  Spreads[f] \subseteq used.fragments
    <2>1. <<"Fragment", f>> \in Searched
      BY DEF Searched
    <2>2. Spreads[f] = SpreadsIn(<<"Fragment", f>>)
      BY <1>1 DEF Spreads
    <2> QED
      BY <1>4, <2>1, <2>2
  <1>6. <<"Operation", operation[1]>> \in Searched
    BY DEF Searched
  <1> QED
    BY <1>4, <1>5, <1>6

\* What a selection spreads for a definition does not change with the walk.
LEMMA GraphStays ==
    ASSUME query' = query, made_for' = made_for
    PROVE  Spreads' = Spreads /\ \A r : SpreadsIn(r)' = SpreadsIn(r)
  BY DEF Spreads, SpreadsIn, Node

\* A step of the walk is a step of the search or none: a fragment is noted only when
\* the operation or a fragment noted before spreads it, and the end leaves none out.
LEMMA SearchSteps ==
    ASSUME ResolutionInv, WalkInv, FragmentsAreWritten, NothingLeft', [Next]_vars
    PROVE  [R!Next]_(R!vars)
  <1> DEFINE Root == IF operation = <<>> THEN {} ELSE SpreadsIn(<<"Operation", operation[1]>>)
  <1>1. R!Referred = Root \cup UNION {Spreads[f] : f \in used.fragments}
    BY DEF R!Referred
  <1>2. CASE operation = <<>> /\ ~Resolved'
    <2>1. used.fragments = {} /\ ~Resolved
      BY <1>2 DEF WalkInv, Resolved
    <2>2. used'.fragments = {}
      <3>1. CASE Resolving /\ UNCHANGED gvars
        BY <2>1, <3>1 DEF gvars
      <3>2. CASE SelectOperation
        BY <2>1, <3>2 DEF SelectOperation
      <3>3. CASE Idle
        BY <2>1, <3>3 DEF Idle
      <3>4. CASE Visiting
        BY <1>2, <3>4, VisitingIs
      <3> QED
        BY <3>1, <3>2, <3>3, <3>4, NextIs
    <2> QED
      BY <1>2, <2>1, <2>2 DEF R!Next, R!Settle
  <1>3. CASE SelectOperation /\ Resolved'
    <2>1. /\ operation = <<>> /\ used.fragments = {} /\ ~Resolved /\ used' = used
          /\ query' = query /\ made_for' = made_for
      BY <1>3 DEF SelectOperation, WalkInv, Resolved, rvars
    <2>2. Spreads' = Spreads /\ Root' = {} /\ Root = {}
      <3>1. SpreadsIn(<<"Operation", operation[1]>>)' \subseteq used'.fragments /\ operation' # <<>>
        BY <1>3 DEF NothingLeft, Resolved
      <3> QED
        BY <2>1, <3>1, GraphStays
    <2>3. R!Referred = {}
      BY <1>1, <2>1, <2>2
    <2> QED
      BY <1>3, <2>1, <2>2, <2>3 DEF R!Next, R!Finish
  <1>4. CASE operation # <<>> /\ Visiting
    <2>1. operation # <<>> /\ walk # <<>> /\ ~Resolved /\ UNCHANGED <<query, made_for, operation>>
      BY <1>4, VisitingIs DEF Resolved, rvars
    <2>2. Spreads' = Spreads /\ Root' = Root
      BY <2>1, GraphStays
    <2>3. PICK h :
            \/ /\ Walking(h, subselection(h)) /\ used'.fragments = used.fragments
               /\ Node(h)[1] = "FragmentSpread" => Node(h)[2] \in used.fragments
            \/ \E f, r :
                 /\ Node(h)[1] = "FragmentSpread" /\ Node(h)[2] = f /\ r = <<"Fragment", f>>
                 /\ f \in DOMAIN query.fragments /\ f \notin used.fragments
                 /\ Walking(h, SetOf(r)) /\ used'.fragments = used.fragments \cup {f}
      BY <1>4, VisitingIs
    <2>4. CASE used'.fragments = used.fragments /\ ~Resolved'
      <3>1. Resolved' = Resolved
        BY <2>1, <2>4 DEF Resolved
      <3> QED
        BY <2>2, <2>4, <3>1 DEF R!vars
    <2>5. CASE used'.fragments = used.fragments /\ Resolved'
      <3>1. /\ SpreadsIn(<<"Operation", operation[1]>>)' \subseteq used'.fragments
            /\ \A f \in used'.fragments : Spreads'[f] \subseteq used'.fragments
        BY <2>5 DEF NothingLeft
      <3>2. R!Referred \subseteq used.fragments
        BY <1>1, <2>1, <2>2, <2>5, <3>1, GraphStays
      <3> QED
        BY <2>1, <2>2, <2>5, <3>2 DEF R!Next, R!Finish
    <2>6. ASSUME NEW f, NEW r,
                 Node(h)[1] = "FragmentSpread", Node(h)[2] = f, r = <<"Fragment", f>>,
                 f \in DOMAIN query.fragments, f \notin used.fragments,
                 Walking(h, SetOf(r)), used'.fragments = used.fragments \cup {f}
          PROVE  R!Next
      <3>1. h \in Ids(query) /\ made_for[h] \in Searched /\ phase \in Ended
        BY <2>6, WalkingIs
      <3>2. f \in R!Referred
        <4>1. h \in DOMAIN query.selections
          BY <3>1, SequenceIs DEF ResolutionInv, Working, Building, Recorded, Ids
        <4>2. \A x : made_for[h] = x => f \in SpreadsIn(x)
          BY <2>6, <4>1 DEF SpreadsIn
        <4>3. CASE made_for[h] = <<"Operation", operation[1]>>
          BY <1>1, <2>1, <4>2, <4>3
        <4>4. ASSUME NEW g \in used.fragments, made_for[h] = <<"Fragment", g>>
              PROVE  f \in R!Referred
          <5>1. g \in DOMAIN query.fragments
            BY <2>1 DEF WalkInv
          <5>2. Spreads[g] = SpreadsIn(<<"Fragment", g>>)
            BY <5>1 DEF Spreads
          <5>3. f \in Spreads[g]
            BY <4>2, <4>4, <5>2
          <5> QED
            BY <1>1, <5>3
        <4> QED
          BY <3>1, <4>3, <4>4 DEF Searched
      <3>3. ~Resolved'
        <4>1. SetOf(r) # <<>>
          <5>1. ResolutionInv /\ FragmentsAreWritten
            OBVIOUS
          <5> QED
            BY <2>6, <3>1, <5>1, FragmentsSelect
        <4>2. walk' # <<>>
          BY <2>6, <4>1, WalkingIs
        <4> QED
          BY <4>2 DEF Resolved
      <3>4. Resolved' = Resolved
        BY <2>1, <3>3 DEF Resolved
      <3> QED
        BY <2>1, <2>2, <2>6, <3>2, <3>4 DEF R!Next, R!Reach
    <2> QED
      BY <2>3, <2>4, <2>5, <2>6
  <1>5. CASE operation # <<>> /\ Idle
    <2>1. UNCHANGED <<query, made_for, operation, walk, used>>
      BY <1>5 DEF Idle, rvars
    <2>2. Spreads' = Spreads /\ Root' = Root /\ Resolved' = Resolved
      BY <2>1, GraphStays DEF Resolved
    <2> QED
      BY <2>1, <2>2 DEF R!vars
  <1>6. operation = <<>> => ~Resolved' \/ SelectOperation
    BY NextIs, VisitingIs DEF Resolved, gvars, Idle
  <1>7. operation # <<>> => Visiting \/ Idle
    BY NextIs, ResolvingIsOver DEF SelectOperation
  <1> QED
    BY <1>2, <1>3, <1>4, <1>5, <1>6, <1>7

\* collect_used_types implements the search of a graph, whatever the schema and the
\* document: from what the operation spreads it reaches the fragments it leads to, one
\* after the other, ends when it has them all and goes round no cycle of them twice
\* (query.rs, query/selection.rs).  What ReachableProofs proves of every search holds
\* of it.
THEOREM CollectingSearches == Spec => CollectsWhatIsSpread
  <1>1. Init => R!Init /\ FragmentsAreWritten
    <2>1. Init => R!Init
      BY DEF Init, R!Init, Resolved
    <2>2. Init => FragmentsAreWritten
      BY DEF Init, ResolutionInit, FragmentsAreWritten
    <2> QED
      BY <2>1, <2>2
  <1>2. ResolutionInv /\ FragmentsAreWritten /\ [Next]_vars => FragmentsAreWritten'
    BY WrittenSteps
  <1>3. ResolutionInv /\ WalkInv /\ FragmentsAreWritten /\ NothingLeft' /\ [Next]_vars
        => [R!Next]_(R!vars)
    BY SearchSteps
  <1>4. Spec => []FragmentsAreWritten
    BY <1>1, <1>2, ResolutionHolds, PTL DEF Spec
  <1>5. ResolutionInv /\ WalkInv => NothingLeft
    BY NothingIsLeft
  <1> QED
    BY <1>1, <1>3, <1>4, <1>5, WalkHolds, PTL DEF Spec, CollectsWhatIsSpread, R!Spec

------------------------------------------------------------------------------
(* The types in the query are types of the schema.                           *)

\* The type a definition is on, and that it is the schema's for the first definitions.
OnOf(d) == IF d[1] = "Fragment" THEN d[2].type_condition[2] ELSE RootType[d[2][1]][1]
Accepted(n) == \A i \in 1..n : OnOf(document[i]) \in DOMAIN KindOf

TypedInv ==
  /\ phase = "roots" => Accepted(at - 1)
  /\ phase = "selections" => Accepted(Len(document))
  /\ \A i \in DOMAIN query.fragments : query.fragments[i].on \in DOMAIN KindOf
  /\ \A i \in DOMAIN query.operations : query.operations[i].object_id \in DOMAIN KindOf
  /\ \A id \in DOMAIN query.selections :
       Node(id)[1] = "Field" => FieldType(id) \in DOMAIN KindOf
  /\ phase = "selections" =>
       \A j \in 1..Len(frames) :
         frames[j].on \in DOMAIN KindOf /\ Resolves(frames[j].on, frames[j].items)

LEMMA QueryWithRoots ==
    ASSUME NEW q, NEW F, NEW O, NEW S, NEW T, NEW V, NEW X, NEW Z,
           q = [fragments |-> F, operations |-> O, selections |-> S, parents |-> T, sets |-> V]
    PROVE  /\ [q EXCEPT !.fragments = X, !.sets = Z] =
                [fragments |-> X, operations |-> O, selections |-> S, parents |-> T, sets |-> Z]
           /\ [q EXCEPT !.operations = X, !.sets = Z] =
                [fragments |-> F, operations |-> X, selections |-> S, parents |-> T, sets |-> Z]
  <1>1. PICK a, b : a = [q EXCEPT !.fragments = X] /\ b = [q EXCEPT !.operations = X]
    OBVIOUS
  <1>2. /\ a = [fragments |-> X, operations |-> O, selections |-> S, parents |-> T, sets |-> V]
        /\ b = [fragments |-> F, operations |-> X, selections |-> S, parents |-> T, sets |-> V]
    BY <1>1
  <1>3. /\ [a EXCEPT !.sets = Z] =
             [fragments |-> X, operations |-> O, selections |-> S, parents |-> T, sets |-> Z]
        /\ [b EXCEPT !.sets = Z] =
             [fragments |-> F, operations |-> X, selections |-> S, parents |-> T, sets |-> Z]
    BY <1>2
  <1>4. /\ [q EXCEPT !.fragments = X, !.sets = Z] = [a EXCEPT !.sets = Z]
        /\ [q EXCEPT !.operations = X, !.sets = Z] = [b EXCEPT !.sets = Z]
    BY <1>1, Zenon
  <1> QED
    BY <1>3, <1>4

\* Nothing becomes less typed when only the phase changes.
LEMMA TypedStays ==
    ASSUME TypedInv, UNCHANGED <<document, at, frames, query>>,
           phase' = phase \/ phase' \notin {"roots", "selections"}
    PROVE  TypedInv'
  BY DEF TypedInv, Accepted, OnOf, Node, FieldType, Resolves, IsComposite

LEMMA RootIsTyped ==
    ASSUME ResolutionInv, TypedInv, CreateFragment \/ CreateOperation
    PROVE  TypedInv'
  <1>1. PICK d, F, O, V, kind, o :
          /\ d = document[at] /\ F = query.fragments /\ O = query.operations /\ V = query.sets
          /\ kind = d[2][1] /\ o = d[2][2]
    OBVIOUS
  <1>2. /\ NothingSelected /\ document \in Written /\ phase = "roots" /\ at \in DOMAIN document
        /\ Accepted(at - 1)
    BY DEF ResolutionInv, CreateFragment, CreateOperation, TypedInv
  <1>3. /\ query = [fragments |-> F, operations |-> O, selections |-> <<>>, parents |-> <<>>, sets |-> V]
        /\ IsSequence(F) /\ IsSequence(O)
        /\ \A i \in DOMAIN F : F[i].on \in DOMAIN KindOf
        /\ \A i \in DOMAIN O : O[i].object_id \in DOMAIN KindOf
    BY <1>1, <1>2 DEF NothingSelected, TypedInv
  <1>4. CASE EndsWith("error") \/ EndsWith("panic")
    BY <1>4, TypedStays DEF EndsWith
  <1>5. ASSUME OnOf(d) \in DOMAIN KindOf, UNCHANGED <<document, phase>>, at' = at + 1,
               query'.selections = <<>>,
               \A i \in DOMAIN query'.fragments : query'.fragments[i].on \in DOMAIN KindOf,
               \A i \in DOMAIN query'.operations : query'.operations[i].object_id \in DOMAIN KindOf
        PROVE  TypedInv'
    <2>1. at \in Nat
      BY <1>2, DocumentIs
    <2>2. at + 1 - 1 = at /\ \A i \in 1..at : i = at \/ i \in 1..at - 1
      BY <2>1
    <2>3. \A i \in 1..at : OnOf(document[i]) \in DOMAIN KindOf
      BY <1>1, <1>2, <1>5, <2>2 DEF Accepted
    <2>4. at' - 1 = at
      <3>1. at' = at + 1
        BY <1>5
      <3> QED
        BY <2>1, <3>1
    <2>5. \A i \in 1..at' - 1 : OnOf(document'[i]) \in DOMAIN KindOf
      BY <1>5, <2>3, <2>4
    <2>6. Accepted(at - 1)'
      BY <2>5 DEF Accepted, OnOf
    <2>7. DOMAIN query'.selections = {} /\ phase' = "roots"
      BY <1>2, <1>5
    <2> QED
      BY <1>5, <2>6, <2>7 DEF TypedInv
  <1>6. ASSUME NEW s, NEW e, IsSequence(s)
        PROVE  \A i \in DOMAIN Append(s, e) :
                 Append(s, e)[i] = e \/ (i \in DOMAIN s /\ Append(s, e)[i] = s[i])
    <2>1. /\ DOMAIN Append(s, e) = 1..Len(s) + 1 /\ DOMAIN s = 1..Len(s) /\ Len(s) \in Nat
          /\ \A i \in 1..Len(s) : Append(s, e)[i] = s[i]
          /\ Append(s, e)[Len(s) + 1] = e
      BY <1>6, AppendIs, SequenceIs
    <2>2. \A i \in 1..Len(s) + 1 : i = Len(s) + 1 \/ i \in 1..Len(s)
      BY <2>1
    <2> QED
      BY <2>1, <2>2
  <1>7. CASE CreateFragment /\ ~EndsWith("error")
    <2>1. PICK e, L, W :
            /\ e = [name |-> d[2].name, on |-> d[2].type_condition[2]]
            /\ L = Append(F, e) /\ W = WithSet(V, <<"Fragment", Len(F) + 1>>)
      OBVIOUS
    <2>2. /\ query' = [query EXCEPT !.fragments = L, !.sets = W] /\ at' = at + 1
          /\ UNCHANGED <<document, phase>>
          /\ d[1] = "Fragment" /\ d[2].type_condition[2] \in DOMAIN KindOf
      BY <1>1, <1>7, <2>1 DEF CreateFragment
    <2>3. query' = [fragments |-> L, operations |-> O, selections |-> <<>>, parents |-> <<>>, sets |-> W]
      BY <1>3, <2>2, QueryWithRoots
    <2>4. \A i \in DOMAIN L : L[i].on \in DOMAIN KindOf
      <3>1. e.on \in DOMAIN KindOf
        BY <2>1, <2>2
      <3> QED
        BY <1>3, <1>6, <2>1, <3>1
    <2> QED
      BY <1>3, <1>5, <2>2, <2>3, <2>4 DEF OnOf
  <1>8. CASE CreateOperation /\ Refused(kind, o) = "roots"
    <2>1. PICK e, L, W :
            /\ e = [name |-> o.name[1], operation_type |-> kind,
                    query_string |-> <<d>>, object_id |-> RootType[kind][1]]
            /\ L = Append(O, e) /\ W = WithSet(V, <<"Operation", Len(O) + 1>>)
      OBVIOUS
    <2>2. /\ query' = [query EXCEPT !.operations = L, !.sets = W] /\ at' = at + 1
          /\ UNCHANGED <<document, phase>> /\ d[1] = "Operation"
      BY <1>1, <1>8, <2>1 DEF CreateOperation
    <2>3. query' = [fragments |-> F, operations |-> L, selections |-> <<>>, parents |-> <<>>, sets |-> W]
      BY <1>3, <2>2, QueryWithRoots
    <2>4. RootType[kind][1] \in DOMAIN KindOf
      <3>1. kind \in {"SelectionSet", "Query", "Mutation", "Subscription"}
        BY <1>1, <1>2, <2>2, WrittenAssumption
      <3>2. kind # "SelectionSet" /\ RootType[kind] # <<>>
        BY <1>8, <3>1 DEF Refused
      <3>3. RootType[kind] \in {<<t>> : t \in DOMAIN KindOf}
        BY <3>1, <3>2, SchemaAssumption
      <3> QED
        BY <3>3
    <2>5. \A i \in DOMAIN L : L[i].object_id \in DOMAIN KindOf
      <3>1. e.object_id \in DOMAIN KindOf
        BY <2>1, <2>4
      <3> QED
        BY <1>3, <1>6, <2>1, <3>1
    <2> QED
      BY <1>1, <1>3, <1>5, <2>2, <2>3, <2>4, <2>5 DEF OnOf
  <1>9. CASE CreateOperation /\ Refused(kind, o) # "roots"
    <2>1. EndsWith(Refused(kind, o))
      BY <1>1, <1>9 DEF CreateOperation
    <2>2. Refused(kind, o) \in {"error", "panic"}
      BY <1>9 DEF Refused
    <2> QED
      BY <1>4, <2>1, <2>2
  <1> QED
    BY <1>4, <1>7, <1>8, <1>9

\* A selection made is of a type the schema has, and so is the call begun for it.
LEMMA SelectionIsTyped ==
    ASSUME ResolutionInv, TypedInv, NEW kind, NEW node, HasItem(kind), node[1] \in Kinds,
           node[1] = "Field" =>
             FieldsOf[node[2].field_id[1]][node[2].field_id[2]].type \in DOMAIN KindOf,
           \/ Select(node)
           \/ \E on \in DOMAIN KindOf : \E items :
                Resolves(on, items) /\ SelectAndEnter(node, on, items)
    PROVE  TypedInv'
  <1>1. PICK n, k, h, P :
          /\ n = Len(query.selections) /\ k = <<node[1], n + 1>> /\ h = Len(frames)
          /\ P = Roots(query) \cup Inner(query)
    OBVIOUS
  <1>2. /\ Working /\ phase = "selections" /\ phase' = phase /\ document' = document
        /\ Stacked(query, frames, item_of, made_for)
    BY DEF HasItem, ResolutionInv, Select, SelectAndEnter, Noted, Ended, Working, Building
  <1>3. Larger(query, n, k, node, Top.parent, query')
    BY <1>1, <1>2, StepIsLarger
  <1>4. \A id \in DOMAIN query'.selections : Node(id)'[1] = "Field" => FieldType(id)' \in DOMAIN KindOf
    <2>1. ASSUME NEW id \in 1..n
          PROVE  query.selections[id][1] = "Field" =>
                   FieldsOf[query.selections[id][2].field_id[1]][query.selections[id][2].field_id[2]].type
                     \in DOMAIN KindOf
      BY <1>3 DEF TypedInv, Node, FieldType, Larger
    <2>2. \A id \in 1..n + 1 : id = n + 1 \/ id \in 1..n
      BY <1>3 DEF Larger
    <2> QED
      BY <1>3, <2>1, <2>2 DEF Node, FieldType, Larger
  <1>5. frames # <<>>
    BY DEF HasItem
  <1>6. \A j \in 1..h : frames[j].on \in DOMAIN KindOf /\ Resolves(frames[j].on, frames[j].items)
    BY <1>1, <1>2 DEF TypedInv
  <1>7. \A j \in 1..Len(frames') :
          frames'[j].on \in DOMAIN KindOf /\ Resolves(frames'[j].on, frames'[j].items)
    <2>1. CASE Select(node)
      <3>1. frames' = Passing(frames)
        BY <2>1 DEF Select, OthersLeft, Passing
      <3>2. Len(frames') = h /\ HasPassed(P, frames, h, frames')
        BY <1>1, <1>2, <1>5, <3>1, PassingIs
      <3> QED
        BY <1>6, <3>2 DEF HasPassed
    <2>2. ASSUME NEW on \in DOMAIN KindOf, NEW items, Resolves(on, items), SelectAndEnter(node, on, items)
          PROVE  \A j \in 1..Len(frames') :
                   frames'[j].on \in DOMAIN KindOf /\ Resolves(frames'[j].on, frames'[j].items)
      <3>1. frames' = Entering(frames, k, on, items)
        BY <1>1, <2>2 DEF SelectAndEnter, NewId, OthersLeft, Entering
      <3>2. HasEntered(P, frames, h, k, on, items, frames')
        BY <1>1, <1>2, <1>5, <3>1, EnteringIs
      <3>3. \A j \in 1..h + 1 : j = h + 1 \/ j \in 1..h
        BY <3>2 DEF HasEntered
      <3> QED
        BY <1>6, <2>2, <3>2, <3>3 DEF HasEntered, HasPassed
    <2> QED
      BY <2>1, <2>2
  <1>8. phase' = "selections"
    BY <1>2
  <1> QED
    BY <1>2, <1>3, <1>4, <1>7, <1>8 DEF TypedInv, Larger, Accepted, OnOf, Resolves, IsComposite

LEMMA TypedSteps ==
    ASSUME ResolutionInv, TypedInv, [Next]_vars
    PROVE  TypedInv'
  <1>1. CASE CreateFragment \/ CreateOperation
    BY <1>1, RootIsTyped
  <1>2. CASE RootsCreated
    <2>1. /\ NothingSelected /\ document \in Written /\ at \in 1..Len(document) + 1
          /\ at \notin DOMAIN document /\ Accepted(at - 1) /\ phase' = "selections"
          /\ UNCHANGED <<document, frames, query>>
      BY <1>2 DEF RootsCreated, ResolutionInv, TypedInv
    <2>2. at - 1 = Len(document)
      BY <2>1, DocumentIs
    <2>3. Len(frames') = 0
      BY <2>1 DEF NothingSelected
    <2>4. Accepted(Len(document))'
      BY <2>1, <2>2 DEF Accepted, OnOf
    <2>5. \A j \in 1..Len(frames') :
            frames'[j].on \in DOMAIN KindOf /\ Resolves(frames'[j].on, frames'[j].items)
      BY <2>3
    <2>6. /\ \A i \in DOMAIN query'.fragments : query'.fragments[i].on \in DOMAIN KindOf
          /\ \A i \in DOMAIN query'.operations : query'.operations[i].object_id \in DOMAIN KindOf
          /\ \A id \in DOMAIN query'.selections : Node(id)'[1] = "Field" => FieldType(id)' \in DOMAIN KindOf
      BY <2>1 DEF TypedInv, Node, FieldType
    <2> QED
      BY <2>1, <2>4, <2>5, <2>6 DEF TypedInv, Resolves, IsComposite
  <1>3. CASE BeginDefinition
    <2>1. CASE EndsWith("error")
      BY <2>1, TypedStays DEF EndsWith
    <2>2. CASE ~EndsWith("error")
      <3>1. PICK d, items, on, p :
              /\ d = document[at] /\ items = Body(d).selection_set
              /\ on = IF d[1] = "Fragment" THEN d[2].type_condition[2] ELSE RootType[d[2][1]][1]
              /\ Resolves(on, items) /\ frames' = <<Frame(p, on, items)>>
              /\ UNCHANGED <<document, phase, at, query>> /\ phase = "selections"
              /\ at \in DOMAIN document
        BY <1>3, <2>2 DEF BeginDefinition
      <3>2. on \in DOMAIN KindOf
        <4>1. at \in 1..Len(document) /\ Accepted(Len(document))
          BY <3>1, DocumentIs DEF ResolutionInv, TypedInv
        <4> QED
          BY <3>1, <4>1 DEF Accepted, OnOf
      <3>3. PICK F : F = Frame(p, on, items)
        OBVIOUS
      <3>4. F.on = on /\ F.items = items
        BY <3>3 DEF Frame
      <3>5. Len(frames') = 1 /\ frames'[1] = F
        BY <3>1, <3>3
      <3>6. \A j \in 1..Len(frames') :
              frames'[j].on \in DOMAIN KindOf /\ Resolves(frames'[j].on, frames'[j].items)
        BY <3>1, <3>2, <3>4, <3>5
      <3> QED
        BY <3>1, <3>6 DEF TypedInv, Accepted, OnOf, Node, FieldType, Resolves, IsComposite
    <2> QED
      BY <2>1, <2>2
  <1>4. CASE SelectTypename
    <2>1. PICK node : node = <<"Typename">>
      OBVIOUS
    <2>2. HasItem("Field") /\ Select(node) /\ node[1] = "Typename"
      BY <1>4, <2>1 DEF SelectTypename
    <2> QED
      BY <2>2, SelectionIsTyped DEF Kinds
  <1>5. CASE SelectField
    <2>1. CASE EndsWith("error")
      BY <2>1, TypedStays DEF EndsWith
    <2>2. CASE ~EndsWith("error")
      <3>1. PICK type, items, node :
              /\ type = FieldsOf[Top.on][Item[2].name].type /\ items = Item[2].selection_set
              /\ node = <<"Field", [alias |-> Item[2].alias, field_id |-> <<Top.on, Item[2].name>>]>>
        OBVIOUS
      <3>2. /\ HasItem("Field") /\ KindOf[Top.on] # "Union" /\ Item[2].name \in DOMAIN FieldsOf[Top.on]
            /\ Resolves(type, items) /\ SelectAndEnter(node, type, items)
        BY <1>5, <2>2, <3>1 DEF SelectField
      <3>3. /\ node[1] = "Field" /\ node[2].field_id[1] = Top.on
            /\ node[2].field_id[2] = Item[2].name
        BY <3>1
      <3>4. PICK h : h = Len(frames)
        OBVIOUS
      <3>5. /\ h \in 1..Len(frames) /\ Top = frames[h] /\ frames[h].met < Len(frames[h].items)
            /\ frames[h].items \in Seq(Items) /\ frames[h].met \in Nat /\ phase = "selections"
        <4>1. Working /\ phase = "selections"
          BY <3>2 DEF HasItem, ResolutionInv
        <4>2. h \in 1..Len(frames) /\ Top = frames[h] /\ frames[h].met < Len(frames[h].items)
          BY <3>2, <3>4, <4>1, MeetsIs
        <4> QED
          BY <4>1, <4>2 DEF Working, Building, Stacked
      <3>6. frames[h].items # <<>>
        BY <3>5
      <3>7. Top.on \in DOMAIN KindOf /\ Resolves(Top.on, frames[h].items)
        BY <3>5 DEF TypedInv
      <3>8. KindOf[Top.on] \in {"Object", "Interface"}
        BY <3>2, <3>6, <3>7 DEF Resolves, IsComposite
      <3>9. type \in DOMAIN KindOf
        BY <3>1, <3>2, <3>7, <3>8, SchemaAssumption
      <3> QED
        BY <3>1, <3>2, <3>3, <3>9, SelectionIsTyped DEF Kinds
    <2> QED
      BY <2>1, <2>2
  <1>6. CASE SelectInlineFragment
    <2>1. CASE EndsWith("error") \/ EndsWith("panic")
      BY <2>1, TypedStays DEF EndsWith
    <2>2. CASE ~(EndsWith("error") \/ EndsWith("panic"))
      <3>1. PICK on, items, node :
              /\ on = Item[2].type_condition[1][2] /\ items = Item[2].selection_set
              /\ node = <<"InlineFragment", [type_id |-> on]>>
        OBVIOUS
      <3>2. /\ HasItem("InlineFragment") /\ on \in DOMAIN KindOf /\ Resolves(on, items)
            /\ SelectAndEnter(node, on, items)
        BY <1>6, <2>2, <3>1 DEF SelectInlineFragment
      <3>3. node[1] = "InlineFragment"
        BY <3>1
      <3> QED
        BY <3>2, <3>3, SelectionIsTyped DEF Kinds
    <2> QED
      BY <2>1, <2>2
  <1>7. CASE SelectFragmentSpread
    <2>1. CASE EndsWith("error")
      BY <2>1, TypedStays DEF EndsWith
    <2>2. CASE ~EndsWith("error")
      <3>1. PICK f : Select(<<"FragmentSpread", f>>) /\ HasItem("FragmentSpread")
        BY <1>7, <2>2 DEF SelectFragmentSpread
      <3>2. PICK node : node = <<"FragmentSpread", f>>
        OBVIOUS
      <3>3. node[1] = "FragmentSpread"
        BY <3>2
      <3> QED
        BY <3>1, <3>2, <3>3, SelectionIsTyped DEF Kinds
    <2> QED
      BY <2>1, <2>2
  <1>8. CASE ReturnFromSelection
    <2>1. PICK F, O, S, T, V :
            /\ query = [fragments |-> F, operations |-> O, selections |-> S, parents |-> T, sets |-> V]
            /\ frames # <<>> /\ IsSequence(frames) /\ phase = "selections"
      <3>1. Working /\ frames # <<>> /\ phase = "selections"
        BY <1>8 DEF ReturnFromSelection, ResolutionInv
      <3> QED
        BY <3>1 DEF Working, Building, Recorded, Stacked
    <2>2. /\ query'.fragments = query.fragments /\ query'.operations = query.operations
          /\ query'.selections = query.selections
      <3>1. CASE query' = query
        BY <3>1
      <3>2. CASE query' # query
        <4>1. PICK p, id : query' = add_to_selection_set(query, p, id)
          BY <1>8, <3>2 DEF ReturnFromSelection
        <4> QED
          BY <2>1, <4>1 DEF add_to_selection_set
      <3> QED
        BY <3>1, <3>2
    <2>3. frames' = Front(frames) /\ UNCHANGED <<document, phase>>
      BY <1>8 DEF ReturnFromSelection
    <2>4. /\ Len(frames') = Len(frames) - 1 /\ Len(frames) \in Nat
          /\ \A j \in 1..Len(frames) - 1 : frames'[j] = frames[j] /\ j \in 1..Len(frames)
      BY <2>1, <2>3, FrontIs, SequenceIs
    <2>5. \A j \in 1..Len(frames') :
            frames'[j].on \in DOMAIN KindOf /\ Resolves(frames'[j].on, frames'[j].items)
      BY <2>1, <2>4 DEF TypedInv
    <2> QED
      BY <2>1, <2>2, <2>3, <2>5 DEF TypedInv, Accepted, OnOf, Node, FieldType, Resolves, IsComposite
  <1>9. CASE SelectionsResolved
    BY <1>9, TypedStays DEF SelectionsResolved
  <1>10. CASE validate_typename_presence
    <2>1. PICK outcome \in {"conditions", "error", "overflow"} : EndsWith(outcome)
      BY <1>10, Zenon DEF validate_typename_presence
    <2> QED
      BY <2>1, TypedStays DEF EndsWith
  <1>11. CASE validate_type_conditions
    <2>1. PICK outcome \in {"resolved", "error"} : EndsWith(outcome)
      BY <1>11, Zenon DEF validate_type_conditions
    <2> QED
      BY <2>1, TypedStays DEF EndsWith
  <1>12. CASE SelectOperation \/ Visiting \/ Idle
    <2>1. UNCHANGED rvars
      BY <1>12 DEF SelectOperation, Visiting, VisitField, VisitInlineFragment, VisitFragmentSpread,
                   VisitTypename, Walked, Idle, rvars
    <2> QED
      BY <2>1, TypedStays DEF rvars
  <1> QED
    BY <1>1, <1>2, <1>3, <1>4, <1>5, <1>6, <1>7, <1>8, <1>9, <1>10, <1>11, <1>12, NextIs DEF Resolving

LEMMA TypedHolds == Spec => []TypedInv
  <1>1. Init => TypedInv
    BY DEF Init, ResolutionInit, TypedInv, Accepted
  <1>2. ResolutionInv /\ TypedInv /\ [Next]_vars => TypedInv'
    BY TypedSteps
  <1> QED
    BY <1>1, <1>2, ResolutionHolds, PTL DEF Spec

------------------------------------------------------------------------------
(* What is rendered names what is used.                                      *)

MadeFor(root) == {id \in Ids(query) : made_for[id] = root}
UsedName(n) == \E f \in used.fragments : n = <<query.fragments[f].name>>

\* A call selects, on a type of the schema, what is made for a root.
Fitting(call, root) == call.set \in Seq(MadeFor(root)) /\ call.on \in DOMAIN KindOf

\* The type of a field is a fragment's, or one of these, or is used.
Named(types, field) ==
  IF field.flatten THEN UsedName(field.type)
  ELSE IF IsComposite(FieldType(field.id)) THEN \E t \in types : t.name = field.type
  ELSE field.type[1] \in used.types

\* What a context has, that of a root: the first type is the root's own.
Described(c, root) ==
  /\ IsSequence(c.types) /\ Len(c.types) > 0
  /\ root[1] = "Fragment" => c.types[1].name = <<query.fragments[root[2]].name>>
  /\ IsSequence(c.fields) /\ \A field \in ToSet(c.fields) : Named(ToSet(c.types), field)
  /\ \A a \in c.aliases : UsedName(a.name)

\* A context at work, with the calls made for the root.
Doing(c, root) ==
  /\ c = [calls |-> c.calls, types |-> c.types, fields |-> c.fields,
          variants |-> c.variants, aliases |-> c.aliases]
  /\ IsSequence(c.calls) /\ \A call \in ToSet(c.calls) : Fitting(call, root)
  /\ Described(c, root)

FragmentsRendered == \A f \in used.fragments : <<"Fragment", f>> \in DOMAIN rendered

RenderInv ==
  /\ rendering = <<>> => calls = <<>>
  /\ rendering # <<>> =>
       /\ Resolved /\ rendering \in Searched
       /\ DOMAIN context = {"types", "fields", "variants", "aliases"}
       /\ Described(context, rendering)
       /\ IsSequence(calls) /\ \A call \in ToSet(calls) : Fitting(call, rendering)
       /\ rendering[1] = "Operation" => FragmentsRendered
  /\ \A root \in DOMAIN rendered :
       /\ Resolved /\ root \in Searched
       /\ Described(rendered[root], root)
       /\ root[1] = "Operation" => FragmentsRendered

LEMMA ElementsOfAppend ==
    ASSUME NEW s, IsSequence(s), NEW e
    PROVE  ToSet(Append(s, e)) = ToSet(s) \cup {e}
  <1>1. PICK t, n : t = Append(s, e) /\ n = Len(s)
    OBVIOUS
  <1>2. /\ n \in Nat /\ DOMAIN s = 1..n /\ DOMAIN t = 1..n + 1
        /\ \A i \in 1..n : t[i] = s[i]
        /\ t[n + 1] = e
    BY <1>1, AppendIs, SequenceIs
  <1>3. \A i \in 1..n + 1 : i = n + 1 \/ i \in 1..n
    BY <1>2
  <1>4. n + 1 \in 1..n + 1 /\ \A i \in 1..n : i \in 1..n + 1
    BY <1>2
  <1> QED
    BY <1>1, <1>2, <1>3, <1>4 DEF ToSet

LEMMA ElementsOfConcat ==
    ASSUME NEW s, IsSequence(s), NEW t, IsSequence(t)
    PROVE  IsSequence(s \o t) /\ ToSet(s \o t) = ToSet(s) \cup ToSet(t)
  <1>1. PICK u, X : u = s \o t /\ X = ToSet(s) \cup ToSet(t)
    OBVIOUS
  <1>2. s \in Seq(X) /\ t \in Seq(X)
    BY <1>1 DEF IsSequence, ToSet
  <1>3. PICK a \in Nat, b \in Nat : a = Len(s) /\ b = Len(t)
    <2>1. Len(s) \in Nat /\ Len(t) \in Nat
      BY SequenceIs
    <2> QED
      BY <2>1
  <1>4. /\ u \in Seq(X) /\ Len(u) = a + b
        /\ \A i \in 1..a + b : u[i] = IF i <= a THEN s[i] ELSE t[i - a]
    BY <1>1, <1>2, <1>3, ConcatProperties
  <1>5. DOMAIN s = 1..a /\ DOMAIN t = 1..b /\ DOMAIN u = 1..a + b
    BY <1>2, <1>3, <1>4
  <1>6. ToSet(u) \subseteq X
    BY <1>4, <1>5 DEF ToSet
  <1>7. ASSUME NEW i \in 1..a
        PROVE  s[i] \in ToSet(u)
    <2>1. i \in 1..a + b /\ i <= a
      OBVIOUS
    <2>2. u[i] = s[i]
      BY <1>4, <2>1
    <2> QED
      BY <1>5, <2>1, <2>2 DEF ToSet
  <1>8. ASSUME NEW i \in 1..b
        PROVE  t[i] \in ToSet(u)
    <2>1. a + i \in 1..a + b /\ ~(a + i <= a) /\ a + i - a = i
      OBVIOUS
    <2>2. u[a + i] = t[i]
      BY <1>4, <2>1
    <2> QED
      BY <1>5, <2>1, <2>2 DEF ToSet
  <1>9. X \subseteq ToSet(u)
    BY <1>1, <1>5, <1>7, <1>8 DEF ToSet
  <1> QED
    BY <1>1, <1>4, <1>6, <1>9, SequenceOf

LEMMA ElementsOf ==
    ASSUME NEW X, NEW s \in Seq(X)
    PROVE  /\ ToSet(s) \subseteq X /\ IsSequence(s)
           /\ s # <<>> => s[1] \in ToSet(s)
           /\ s \in Seq(ToSet(s))
  <1>1. IsSequence(s) /\ DOMAIN s = 1..Len(s) /\ Len(s) \in Nat /\ (s # <<>> => Len(s) > 0)
    BY SequenceOf, SequenceIs
  <1>2. \A i \in 1..Len(s) : s[i] \in X
    OBVIOUS
  <1>3. s # <<>> => 1 \in DOMAIN s
    BY <1>1
  <1> QED
    BY <1>1, <1>2, <1>3 DEF ToSet, IsSequence

\* The elements of a sequence that are in a set are a sequence of them.
LEMMA AmongIs ==
    ASSUME NEW X, NEW s \in Seq(X), NEW S
    PROVE  Among(s, S) \in Seq(X \cap S)
  <1> DEFINE V == Seq(X \cap S)
             step == [x \in Nat \X V |->
                        IF x[1] \in 1..Len(s) /\ s[x[1]] \in S THEN Append(x[2], s[x[1]]) ELSE x[2]]
             Chosen(f) == f = [i \in 0..Len(s) |->
                                 IF i = 0 THEN <<>>
                                 ELSE IF s[i] \in S THEN Append(f[i - 1], s[i]) ELSE f[i - 1]]
             J == CHOOSE f : Chosen(f)
  <1>1. PICK N \in Nat : N = Len(s)
    BY LenProperties
  <1>2. <<>> \in V /\ \A i \in 1..N : s[i] \in S => s[i] \in X \cap S
    BY <1>1
  <1>a. \A i \in 1..N, u \in V : s[i] \in S => Append(u, s[i]) \in V
    BY <1>2, AppendProperties
  <1>3. /\ step \in [Nat \X V -> V]
        /\ \A i \in 1..N, u \in V :
             step[<<i, u>>] = IF s[i] \in S THEN Append(u, s[i]) ELSE u
    <2> HIDE DEF V
    <2>2. step \in [Nat \X V -> V]
      BY <1>1, <1>a
    <2>3. ASSUME NEW i \in 1..N, NEW u \in V
          PROVE  step[<<i, u>>] = IF s[i] \in S THEN Append(u, s[i]) ELSE u
      <3>1. <<i, u>> \in Nat \X V /\ <<i, u>>[1] = i /\ <<i, u>>[2] = u
        OBVIOUS
      <3> QED
        BY <1>1, <3>1
    <2> QED
      BY <2>2, <2>3
  <1> HIDE DEF step, V
  <1>4. PICK f : Steps(f, <<>>, step, N, V)
    BY <1>2, <1>3, StepsExist
  <1>5. /\ f \in [0..N -> V] /\ f[0] = <<>>
        /\ \A i \in 1..N : f[i] = IF s[i] \in S THEN Append(f[i - 1], s[i]) ELSE f[i - 1]
    <2>1. \A i \in 1..N : i - 1 \in 0..N
      OBVIOUS
    <2> QED
      BY <1>3, <1>4, <2>1 DEF Steps
  <1>6. Chosen(f)
    <2>1. \A i \in 0..N : i # 0 => i \in 1..N
      OBVIOUS
    <2>2. \A i \in 0..N : f[i] = IF i = 0 THEN <<>>
                                 ELSE IF s[i] \in S THEN Append(f[i - 1], s[i]) ELSE f[i - 1]
      BY <1>5, <2>1, Zenon
    <2>3. f = [i \in 0..N |-> f[i]]
      BY <1>5
    <2> QED
      BY <1>1, <2>2, <2>3, Zenon
  <1>7. Chosen(J)
    BY <1>6
  <1>8. Among(s, S) = J[N]
    BY <1>1 DEF Among
  <1>9. /\ J[0] = <<>>
        /\ \A i \in 1..N : J[i] = IF s[i] \in S THEN Append(J[i - 1], s[i]) ELSE J[i - 1]
    <2> DEFINE body(i) == IF i = 0 THEN <<>>
                          ELSE IF s[i] \in S THEN Append(J[i - 1], s[i]) ELSE J[i - 1]
    <2>1. J = [i \in 0..N |-> body(i)]
      BY <1>1, <1>7
    <2>2. 0 \in 0..N /\ \A i \in 1..N : i \in 0..N /\ i # 0
      OBVIOUS
    <2> HIDE DEF J, body
    <2>3. \A i \in 0..N : J[i] = body(i)
      BY <2>1
    <2> QED
      BY <2>2, <2>3 DEF body
  <1> HIDE DEF J
  <1>10. \A i \in 1..N : J[i - 1] \in V => J[i] \in V
    BY <1>9, <1>a
  <1>11. \A i \in 0..N : J[i] \in V
    BY <1>2, <1>9, <1>10, StepsStay, SMTT(40)
  <1> QED
    BY <1>8, <1>11 DEF V

\* A context of which one part or two are changed.
LEMMA ContextWith ==
    ASSUME NEW c, NEW C, NEW T, NEW F, NEW V, NEW A, NEW X, NEW Y, NEW Z,
           c = [calls |-> C, types |-> T, fields |-> F, variants |-> V, aliases |-> A]
    PROVE  /\ [c EXCEPT !.variants = X] =
                [calls |-> C, types |-> T, fields |-> F, variants |-> X, aliases |-> A]
           /\ [c EXCEPT !.aliases = X] =
                [calls |-> C, types |-> T, fields |-> F, variants |-> V, aliases |-> X]
           /\ [c EXCEPT !.fields = X] =
                [calls |-> C, types |-> T, fields |-> X, variants |-> V, aliases |-> A]
           /\ [c EXCEPT !.types = X, !.variants = Y] =
                [calls |-> C, types |-> X, fields |-> F, variants |-> Y, aliases |-> A]
           /\ [c EXCEPT !.fields = X, !.calls = Y] =
                [calls |-> Y, types |-> T, fields |-> X, variants |-> V, aliases |-> A]
           /\ [c EXCEPT !.fields = X, !.types = Y, !.calls = Z] =
                [calls |-> Z, types |-> Y, fields |-> X, variants |-> V, aliases |-> A]
  <1>1. PICK a, b : a = [c EXCEPT !.fields = X] /\ b = [c EXCEPT !.types = X]
    OBVIOUS
  <1>2. /\ a = [calls |-> C, types |-> T, fields |-> X, variants |-> V, aliases |-> A]
        /\ b = [calls |-> C, types |-> X, fields |-> F, variants |-> V, aliases |-> A]
    BY <1>1
  <1>3. PICK d : d = [a EXCEPT !.types = Y]
    OBVIOUS
  <1>4. d = [calls |-> C, types |-> Y, fields |-> X, variants |-> V, aliases |-> A]
    BY <1>2, <1>3
  <1>5. /\ [c EXCEPT !.types = X, !.variants = Y] = [b EXCEPT !.variants = Y]
        /\ [c EXCEPT !.fields = X, !.calls = Y] = [a EXCEPT !.calls = Y]
        /\ [c EXCEPT !.fields = X, !.types = Y, !.calls = Z] = [d EXCEPT !.calls = Z]
    BY <1>1, <1>3, Zenon
  <1>6. /\ [b EXCEPT !.variants = Y] =
             [calls |-> C, types |-> X, fields |-> F, variants |-> Y, aliases |-> A]
        /\ [a EXCEPT !.calls = Y] =
             [calls |-> Y, types |-> T, fields |-> X, variants |-> V, aliases |-> A]
        /\ [d EXCEPT !.calls = Z] =
             [calls |-> Z, types |-> Y, fields |-> X, variants |-> V, aliases |-> A]
    BY <1>2, <1>4
  <1>7. /\ [c EXCEPT !.variants = X] =
             [calls |-> C, types |-> T, fields |-> F, variants |-> X, aliases |-> A]
        /\ [c EXCEPT !.aliases = X] =
             [calls |-> C, types |-> T, fields |-> F, variants |-> V, aliases |-> X]
    OBVIOUS
  <1> QED
    BY <1>1, <1>2, <1>5, <1>6, <1>7

\* What is made for a definition that has been walked is noted.
LEMMA UsedIs ==
    ASSUME ResolutionInv, WalkInv, Resolved, NEW root \in Searched, NEW id \in MadeFor(root)
    PROVE  /\ Node(id)[1] = "FragmentSpread" => UsedName(<<query.fragments[Node(id)[2]].name>>)
           /\ Node(id)[1] = "Field" => FieldType(id) \in used.types
  <1>1. Noticed({})
    <2>1. ToSet(walk) = {} /\ HasInside({}) /\ operation # <<>>
      BY DEF Resolved, ToSet, HasInside
    <2> QED
      BY <2>1 DEF WalkInv
  <1> QED
    BY <1>1 DEF Noticed, MadeFor, UsedName

\* What is inside a selection is made for the same root.
LEMMA InsideIs ==
    ASSUME ResolutionInv, phase \in Ended, NEW root, NEW id \in MadeFor(root)
    PROVE  subselection(id) \in Seq(MadeFor(root))
  <1>1. id \in Ids(query) /\ made_for[id] = root
    BY DEF MadeFor
  <1>2. PICK p : p = AsParent(id)
    OBVIOUS
  <1>3. p \in Inner(query) /\ p[2] = id
    BY <1>1, <1>2 DEF AsParent, Node, Inner
  <1>4. SetOf(p) \in Seq(Ids(query)) /\ \A x \in ToSet(SetOf(p)) : made_for[x] = root
    BY <1>1, <1>3, SetsAre
  <1>5. ToSet(SetOf(p)) \subseteq MadeFor(root) /\ SetOf(p) \in Seq(ToSet(SetOf(p)))
    BY <1>4, ElementsOf DEF MadeFor
  <1>6. SetOf(p) \in Seq(MadeFor(root))
    BY <1>5
  <1> QED
    BY <1>2, <1>6 DEF subselection

\* A context stays one of the root when it is given fields that are named, types, calls
\* that fit and names of fragments used.
LEMMA DoingGrows ==
    ASSUME NEW c, NEW root, Doing(c, root),
           NEW C, NEW T, NEW F, NEW V, NEW A, NEW d,
           d = [calls |-> C, types |-> T, fields |-> F, variants |-> V, aliases |-> A],
           T = c.types \/ \E t : T = Append(c.types, t),
           IsSequence(F), IsSequence(C),
           \A field \in ToSet(F) : field \in ToSet(c.fields) \/ Named(ToSet(T), field),
           \A call \in ToSet(C) : call \in ToSet(c.calls) \/ Fitting(call, root),
           \A a \in A : a \in c.aliases \/ UsedName(a.name)
    PROVE  Doing(d, root)
  <1>1. /\ d.calls = C /\ d.types = T /\ d.fields = F /\ d.variants = V /\ d.aliases = A
        /\ d = [calls |-> d.calls, types |-> d.types, fields |-> d.fields,
                variants |-> d.variants, aliases |-> d.aliases]
    OBVIOUS
  <1>2. Described(c, root) /\ \A call \in ToSet(c.calls) : Fitting(call, root)
    BY DEF Doing
  <1>3. IsSequence(c.types) /\ Len(c.types) > 0 /\ Len(c.types) \in Nat
    BY <1>2, SequenceIs DEF Described
  <1>4. /\ IsSequence(T) /\ Len(T) > 0 /\ T[1] = c.types[1]
        /\ ToSet(c.types) \subseteq ToSet(T)
    <2>1. CASE T = c.types
      BY <1>3, <2>1
    <2>2. ASSUME NEW t, T = Append(c.types, t)
          PROVE  /\ IsSequence(T) /\ Len(T) > 0 /\ T[1] = c.types[1]
                 /\ ToSet(c.types) \subseteq ToSet(T)
      <3>1. /\ IsSequence(T) /\ Len(T) = Len(c.types) + 1
            /\ \A i \in 1..Len(c.types) : T[i] = c.types[i]
        BY <1>3, <2>2, AppendIs
      <3>2. ToSet(T) = ToSet(c.types) \cup {t}
        BY <1>3, <2>2, ElementsOfAppend
      <3>3. 1 \in 1..Len(c.types)
        BY <1>3
      <3> QED
        BY <1>3, <3>1, <3>2, <3>3
    <2> QED
      BY <2>1, <2>2
  <1>5. \A field : Named(ToSet(c.types), field) => Named(ToSet(T), field)
    BY <1>4 DEF Named
  <1>6. \A field \in ToSet(F) : Named(ToSet(T), field)
    BY <1>2, <1>5 DEF Described
  <1>7. \A call \in ToSet(C) : Fitting(call, root)
    BY <1>2
  <1>8. \A a \in A : UsedName(a.name)
    BY <1>2 DEF Described
  <1>9. Described(d, root)
    BY <1>1, <1>2, <1>4, <1>6, <1>8 DEF Described
  <1> QED
    BY <1>1, <1>7, <1>9 DEF Doing

\* The state in which a root is rendered.
Drawing(root) == ResolutionInv /\ WalkInv /\ Resolved /\ phase \in Ended /\ root \in Searched

LEMMA FlattenedIs ==
    ASSUME NEW root, Drawing(root), NEW struct, NEW id \in MadeFor(root),
           Node(id)[1] = "FragmentSpread", NEW types
    PROVE  Named(types, Flattened(struct, id))
  <1>1. UsedName(<<query.fragments[Node(id)[2]].name>>)
    BY UsedIs DEF Drawing
  <1>2. /\ Flattened(struct, id).flatten = TRUE
        /\ Flattened(struct, id).type = <<query.fragments[Node(id)[2]].name>>
    BY DEF Flattened
  <1> QED
    BY <1>1, <1>2 DEF Named

LEMMA AliasIs ==
    ASSUME NEW root, Drawing(root), NEW struct, NEW id \in MadeFor(root),
           Node(id)[1] = "FragmentSpread"
    PROVE  UsedName(AliasOf(struct, Node(id)[2]).name)
  <1>1. UsedName(<<query.fragments[Node(id)[2]].name>>)
    BY UsedIs DEF Drawing
  <1>2. AliasOf(struct, Node(id)[2]).name = <<query.fragments[Node(id)[2]].name>>
    BY DEF AliasOf
  <1> QED
    BY <1>1, <1>2

\* The elements of a function over the indices of a sequence.
LEMMA ElementsOfMap ==
    ASSUME NEW s, IsSequence(s), NEW m, m = [i \in DOMAIN s |-> m[i]]
    PROVE  IsSequence(m) /\ ToSet(m) = {m[i] : i \in DOMAIN s}
  <1>1. DOMAIN s = 1..Len(s) /\ Len(s) \in Nat
    BY SequenceIs
  <1>2. PICK X : X = {m[i] : i \in DOMAIN s}
    OBVIOUS
  <1>3. m \in [1..Len(s) -> X]
    BY <1>1, <1>2
  <1>4. m \in Seq(X)
    BY <1>1, <1>3
  <1>5. DOMAIN m = DOMAIN s
    OBVIOUS
  <1> QED
    BY <1>2, <1>4, <1>5, SequenceOf DEF ToSet

LEMMA VariantKeeps ==
    ASSUME NEW root, Drawing(root), NEW c, Doing(c, root), NEW call, Fitting(call, root),
           NEW variant \in DOMAIN KindOf
    PROVE  Doing(AddVariant(c, call, variant), root)
  <1>1. PICK selections, struct, spreads, inlines, t, v, w, with, m, k :
          /\ selections = OnVariant(call.set, call.on, variant)
          /\ struct = Len(c.types) + 1
          /\ spreads = Among(selections, {id \in ToSet(selections) : Node(id)[1] = "FragmentSpread"})
          /\ inlines = Among(selections, {id \in ToSet(selections) : Node(id)[1] = "InlineFragment"})
          /\ t = Type(full_path_prefix(selections[1]) \o <<"On", variant>>, <<>>, variant)
          /\ v = [on |-> call.struct, name |-> variant, variant_type |-> <<>>]
          /\ w = [on |-> call.struct, name |-> variant, variant_type |-> <<struct>>]
          /\ with = [c EXCEPT !.types = Append(@, t), !.variants = @ \cup {w}]
          /\ m = [i \in DOMAIN spreads |-> Flattened(struct, spreads[i])]
          /\ k = [i \in DOMAIN inlines |-> Call(struct, subselection(selections[1]), variant)]
    OBVIOUS
  <1>2. PICK C, T, F, V, A :
          /\ c = [calls |-> C, types |-> T, fields |-> F, variants |-> V, aliases |-> A]
          /\ IsSequence(C) /\ IsSequence(F) /\ IsSequence(T)
    BY DEF Doing, Described
  <1>3. c.calls = C /\ c.types = T /\ c.fields = F /\ c.variants = V /\ c.aliases = A
    BY <1>2
  <1>4. with = [calls |-> C, types |-> Append(T, t), fields |-> F, variants |-> V \cup {w},
                aliases |-> A]
    <2>1. PICK X, Y : X = Append(T, t) /\ Y = V \cup {w}
      OBVIOUS
    <2>2. with = [c EXCEPT !.types = X, !.variants = Y]
      BY <1>1, <1>3, <2>1, Zenon
    <2>3. with = [calls |-> C, types |-> X, fields |-> F, variants |-> Y, aliases |-> A]
      BY <1>2, <2>2, ContextWith
    <2> QED
      BY <2>1, <2>3
  <1>5. /\ call.set \in Seq(MadeFor(root))
        /\ selections \in Seq(MadeFor(root)) /\ ToSet(selections) \subseteq MadeFor(root)
        /\ selections # <<>> => selections[1] \in ToSet(selections)
    <2>1. call.set \in Seq(MadeFor(root))
      BY DEF Fitting
    <2>2. PICK S : selections = Among(call.set, S)
      BY <1>1 DEF OnVariant
    <2>3. selections \in Seq(MadeFor(root) \cap S)
      BY <2>1, <2>2, AmongIs
    <2>4. selections \in Seq(MadeFor(root))
      BY <2>3
    <2> QED
      BY <2>1, <2>4, ElementsOf
  <1>6. CASE selections = <<>>
    <2>1. PICK X : X = V \cup {v}
      OBVIOUS
    <2>2. AddVariant(c, call, variant) = [c EXCEPT !.variants = X]
      <3>0. ~IsLoneSpread(selections)
        BY <1>6 DEF IsLoneSpread
      <3>1. AddVariant(c, call, variant) = [c EXCEPT !.variants = @ \cup {v}]
        BY <1>1, <1>6, <3>0 DEF AddVariant
      <3> QED
        BY <1>3, <2>1, <3>1, Zenon
    <2>3. AddVariant(c, call, variant) =
            [calls |-> C, types |-> T, fields |-> F, variants |-> X, aliases |-> A]
      BY <1>2, <2>2, ContextWith
    <2> QED
      BY <1>2, <1>3, <2>3, DoingGrows
  <1>7. CASE selections # <<>> /\ IsLoneSpread(selections)
    <2>1. PICK a, X : a = AliasOf(struct, Node(selections[1])[2]) /\ X = A \cup {a}
      OBVIOUS
    <2>2. AddVariant(c, call, variant) = [with EXCEPT !.aliases = X]
      <3>1. AddVariant(c, call, variant) = [with EXCEPT !.aliases = @ \cup {a}]
        BY <1>1, <1>7, <2>1 DEF AddVariant
      <3>2. with.aliases = A
        BY <1>4
      <3> QED
        BY <2>1, <3>1, <3>2, Zenon
    <2>3. AddVariant(c, call, variant) =
            [calls |-> C, types |-> Append(T, t), fields |-> F, variants |-> V \cup {w}, aliases |-> X]
      BY <1>4, <2>2, ContextWith
    <2>4. UsedName(a.name)
      <3>1. selections[1] \in MadeFor(root) /\ Node(selections[1])[1] = "FragmentSpread"
        BY <1>5, <1>7 DEF IsLoneSpread
      <3> QED
        BY <2>1, <3>1, AliasIs
    <2> QED
      BY <1>2, <1>3, <2>1, <2>3, <2>4, DoingGrows
  <1>8. CASE selections # <<>> /\ ~IsLoneSpread(selections)
    <2>1. PICK X, Y : X = F \o m /\ Y = C \o k
      OBVIOUS
    <2>2. AddVariant(c, call, variant) = [with EXCEPT !.fields = X, !.calls = Y]
      <3>1. AddVariant(c, call, variant) = [with EXCEPT !.fields = @ \o m, !.calls = @ \o k]
        BY <1>1, <1>8 DEF AddVariant
      <3>2. with.fields = F /\ with.calls = C
        BY <1>4
      <3> QED
        BY <2>1, <3>1, <3>2, Zenon
    <2>3. AddVariant(c, call, variant) =
            [calls |-> Y, types |-> Append(T, t), fields |-> X, variants |-> V \cup {w}, aliases |-> A]
      BY <1>4, <2>2, ContextWith
    <2>4. IsSequence(m) /\ \A field \in ToSet(m) : Named(ToSet(Append(T, t)), field)
      <3>1. PICK S : S = {id \in ToSet(selections) : Node(id)[1] = "FragmentSpread"}
        OBVIOUS
      <3>2. spreads \in Seq(MadeFor(root) \cap S)
        BY <1>1, <1>5, <3>1, AmongIs
      <3>3. IsSequence(spreads) /\ \A i \in DOMAIN spreads : spreads[i] \in MadeFor(root) \cap S
        BY <3>2, SequenceOf
      <3>4. \A i \in DOMAIN spreads : m[i] = Flattened(struct, spreads[i])
        BY <1>1
      <3>5. \A i \in DOMAIN spreads : Named(ToSet(Append(T, t)), m[i])
        BY <3>1, <3>3, <3>4, FlattenedIs
      <3>6. m = [i \in DOMAIN spreads |-> m[i]]
        BY <1>1
      <3>7. IsSequence(m) /\ ToSet(m) = {m[i] : i \in DOMAIN spreads}
        BY <3>3, <3>6, ElementsOfMap
      <3> QED
        BY <3>5, <3>7
    <2>5. IsSequence(k) /\ \A x \in ToSet(k) : Fitting(x, root)
      <3>1. IsSequence(inlines)
        BY <1>1, <1>5, AmongIs, SequenceOf
      <3>2. PICK x : x = Call(struct, subselection(selections[1]), variant)
        OBVIOUS
      <3>3. DOMAIN k = DOMAIN inlines /\ \A i \in DOMAIN inlines : k[i] = x
        BY <1>1, <3>2
      <3>4. subselection(selections[1]) \in Seq(MadeFor(root))
        BY <1>5, <1>8, InsideIs DEF Drawing
      <3>5. Fitting(x, root)
        <4>1. x.set = subselection(selections[1]) /\ x.on = variant
          BY <3>2 DEF Call
        <4> QED
          BY <3>4, <4>1 DEF Fitting
      <3>6. IsSequence(k) /\ ToSet(k) = {k[i] : i \in DOMAIN inlines}
        <4>1. k = [i \in DOMAIN inlines |-> k[i]]
          BY <1>1
        <4> QED
          BY <3>1, <4>1, ElementsOfMap
      <3> QED
        BY <3>3, <3>5, <3>6
    <2>6. /\ IsSequence(X) /\ \A field \in ToSet(X) : field \in ToSet(F) \/ Named(ToSet(Append(T, t)), field)
          /\ IsSequence(Y) /\ \A x \in ToSet(Y) : x \in ToSet(C) \/ Fitting(x, root)
      <3>1. IsSequence(X) /\ ToSet(X) = ToSet(F) \cup ToSet(m)
        BY <1>2, <2>1, <2>4, ElementsOfConcat
      <3>2. IsSequence(Y) /\ ToSet(Y) = ToSet(C) \cup ToSet(k)
        BY <1>2, <2>1, <2>5, ElementsOfConcat
      <3> QED
        BY <2>4, <2>5, <3>1, <3>2
    <2>7. PICK d, U, W : d = AddVariant(c, call, variant) /\ U = Append(T, t) /\ W = V \cup {w}
      OBVIOUS
    <2>8. /\ d = [calls |-> Y, types |-> U, fields |-> X, variants |-> W, aliases |-> A]
          /\ U = Append(c.types, t)
      BY <1>3, <2>3, <2>7
    <2>9. /\ IsSequence(X) /\ \A field \in ToSet(X) : field \in ToSet(c.fields) \/ Named(ToSet(U), field)
          /\ IsSequence(Y) /\ \A x \in ToSet(Y) : x \in ToSet(c.calls) \/ Fitting(x, root)
          /\ \A a \in A : a \in c.aliases \/ UsedName(a.name)
      BY <1>3, <2>6, <2>7
    <2>10. Doing(d, root)
      BY <2>8, <2>9, DoingGrows
    <2> QED
      BY <2>7, <2>10
  <1> QED
    BY <1>6, <1>7, <1>8

LEMMA SelectionKeeps ==
    ASSUME NEW root, Drawing(root), TypedInv, NEW c, Doing(c, root), NEW call,
           NEW id \in MadeFor(root)
    PROVE  Doing(AddSelection(c, call, id), root)
  <1>1. PICK C, T, F, V, A, r :
          /\ c = [calls |-> C, types |-> T, fields |-> F, variants |-> V, aliases |-> A]
          /\ IsSequence(C) /\ IsSequence(F) /\ IsSequence(T)
          /\ r = AddSelection(c, call, id)
    BY DEF Doing, Described
  <1>2. c.calls = C /\ c.types = T /\ c.fields = F /\ c.variants = V /\ c.aliases = A
    BY <1>1
  <1>3. ASSUME NEW field, r = [c EXCEPT !.fields = Append(@, field)], Named(ToSet(T), field)
        PROVE  Doing(r, root)
    <2>1. PICK X : X = Append(F, field)
      OBVIOUS
    <2>2. r = [c EXCEPT !.fields = X]
      BY <1>2, <1>3, <2>1, Zenon
    <2>3. r = [calls |-> C, types |-> T, fields |-> X, variants |-> V, aliases |-> A]
      BY <1>1, <2>2, ContextWith
    <2>4. IsSequence(X) /\ ToSet(X) = ToSet(F) \cup {field}
      BY <1>1, <2>1, AppendIs, ElementsOfAppend
    <2> QED
      BY <1>1, <1>2, <1>3, <2>3, <2>4, DoingGrows
  <1>4. CASE Node(id)[1] = "Field" /\ ~IsComposite(FieldType(id))
    <2>1. PICK field : field = FieldOf(call.struct, id, <<FieldType(id)>>)
      OBVIOUS
    <2>2. r = [c EXCEPT !.fields = Append(@, field)]
      BY <1>1, <1>4, <2>1 DEF AddSelection
    <2>3. field.flatten = FALSE /\ field.id = id /\ field.type = <<FieldType(id)>>
      BY <2>1 DEF FieldOf
    <2>4. FieldType(id) \in used.types
      BY <1>4, UsedIs DEF Drawing
    <2>5. Named(ToSet(T), field)
      BY <1>4, <2>3, <2>4 DEF Named
    <2> QED
      BY <1>1, <1>3, <2>2, <2>5
  <1>5. CASE Node(id)[1] = "Field" /\ IsComposite(FieldType(id))
    <2>1. PICK name, set, field, t, k, X, Y, Z :
            /\ name = full_path_prefix(id) /\ set = subselection(id)
            /\ field = FieldOf(call.struct, id, name) /\ t = Type(name, set, FieldType(id))
            /\ k = Call(Len(c.types) + 1, set, FieldType(id))
            /\ X = Append(F, field) /\ Y = Append(T, t) /\ Z = Append(C, k)
      OBVIOUS
    <2>2. r = [c EXCEPT !.fields = X, !.types = Y, !.calls = Z]
      <3>1. r = [c EXCEPT !.fields = Append(@, field), !.types = Append(@, t), !.calls = Append(@, k)]
        BY <1>1, <1>5, <2>1 DEF AddSelection
      <3> QED
        BY <1>2, <2>1, <3>1, Zenon
    <2>3. r = [calls |-> Z, types |-> Y, fields |-> X, variants |-> V, aliases |-> A]
      BY <1>1, <2>2, ContextWith
    <2>4. /\ IsSequence(X) /\ ToSet(X) = ToSet(F) \cup {field}
          /\ ToSet(Y) = ToSet(T) \cup {t}
          /\ IsSequence(Z) /\ ToSet(Z) = ToSet(C) \cup {k}
      BY <1>1, <2>1, AppendIs, ElementsOfAppend
    <2>5. Named(ToSet(Y), field)
      <3>1. field.flatten = FALSE /\ field.id = id /\ field.type = name /\ t.name = name
        BY <2>1 DEF FieldOf, Type
      <3> QED
        BY <1>5, <2>4, <3>1 DEF Named
    <2>6. Fitting(k, root)
      <3>1. k.set = set /\ k.on = FieldType(id)
        BY <2>1 DEF Call
      <3>2. set \in Seq(MadeFor(root))
        BY <2>1, InsideIs DEF Drawing
      <3>3. id \in DOMAIN query.selections
        BY SequenceIs DEF Drawing, ResolutionInv, Working, Building, Recorded, MadeFor, Ids
      <3>4. FieldType(id) \in DOMAIN KindOf
        BY <1>5, <3>3 DEF TypedInv
      <3> QED
        BY <3>1, <3>2, <3>4 DEF Fitting
    <2>7. /\ \A x \in ToSet(X) : x \in ToSet(c.fields) \/ Named(ToSet(Y), x)
          /\ \A x \in ToSet(Z) : x \in ToSet(c.calls) \/ Fitting(x, root)
          /\ \A x \in A : x \in c.aliases \/ UsedName(x.name)
      BY <1>2, <2>4, <2>5, <2>6
    <2>8. Y = Append(c.types, t) /\ IsSequence(X) /\ IsSequence(Z)
      BY <1>2, <2>1, <2>4
    <2>9. Doing(r, root)
      BY <2>3, <2>7, <2>8, DoingGrows
    <2> QED
      BY <1>1, <2>9
  <1>6. CASE Node(id)[1] = "FragmentSpread" /\ SpreadOn(id) = call.on
    <2>1. PICK field : field = Flattened(call.struct, id)
      OBVIOUS
    <2>2. r = [c EXCEPT !.fields = Append(@, field)]
      BY <1>1, <1>6, <2>1 DEF AddSelection
    <2>3. Named(ToSet(T), field)
      BY <1>6, <2>1, FlattenedIs
    <2> QED
      BY <1>1, <1>3, <2>2, <2>3
  <1>7. CASE Node(id)[1] # "Field" /\ ~(Node(id)[1] = "FragmentSpread" /\ SpreadOn(id) = call.on)
    <2>1. r = c
      BY <1>1, <1>7 DEF AddSelection
    <2> QED
      BY <1>1, <2>1
  <1> QED
    BY <1>4, <1>5, <1>6, <1>7

\* The variants of a call are added one after the other.
LEMMA WithVariantsIs ==
    ASSUME NEW start, NEW call, NEW objects, NEW N \in Nat, N = Len(objects)
    PROVE  \E f : /\ WithVariants(start, call, objects) = f[N] /\ f[0] = start
                  /\ \A i \in 1..N : f[i] = AddVariant(f[i - 1], call, objects[i])
  <1> DEFINE value(f, i) == IF i = 0 THEN start ELSE AddVariant(f[i - 1], call, objects[i])
             P == {m \in 0..N : \E f : f = [i \in 0..m |-> value(f, i)]}
             J == CHOOSE f : f = [i \in 0..N |-> value(f, i)]
  <1>1. 0 \in P
    <2>1. PICK f : f = [i \in 0..0 |-> start]
      OBVIOUS
    <2>2. \A i \in 0..0 : i = 0
      OBVIOUS
    <2>3. f = [i \in 0..0 |-> value(f, i)]
      BY <2>1, <2>2, Zenon
    <2>4. 0 \in 0..N
      OBVIOUS
    <2> QED
      BY <2>3, <2>4
  <1>2. ASSUME NEW m \in 0..N - 1, m \in P
        PROVE  m + 1 \in P
    <2>1. PICK f : f = [i \in 0..m |-> value(f, i)]
      BY <1>2
    <2>2. PICK last : last = value(f, m + 1)
      OBVIOUS
    <2>3. PICK g : g = [i \in 0..m + 1 |-> IF i = m + 1 THEN last ELSE f[i]]
      OBVIOUS
    <2>4. /\ m + 1 # 0 /\ m + 1 - 1 = m /\ m + 1 \in 0..m + 1 /\ m + 1 \in 0..N
          /\ \A i \in 0..m : i \in 0..m + 1 /\ i # m + 1
          /\ \A i \in 0..m + 1 : i = m + 1 \/ i \in 0..m
          /\ \A i \in 0..m : i # 0 => i - 1 \in 0..m
          /\ m \in 0..m
      OBVIOUS
    <2>5. g[m + 1] = last /\ \A i \in 0..m : g[i] = f[i]
      BY <2>3, <2>4
    <2>6. \A i \in 0..m : f[i] = value(f, i)
      <3> HIDE DEF value
      <3> QED
        BY <2>1
    <2>7. \A i \in 0..m : value(f, i) = value(g, i)
      BY <2>4, <2>5
    <2>8. last = value(g, m + 1)
      BY <2>2, <2>4, <2>5
    <2> HIDE DEF value
    <2>9. \A i \in 0..m + 1 : g[i] = value(g, i)
      BY <2>4, <2>5, <2>6, <2>7, <2>8
    <2>10. g = [i \in 0..m + 1 |-> g[i]]
      BY <2>3
    <2>11. g = [i \in 0..m + 1 |-> value(g, i)]
      BY <2>9, <2>10, Zenon
    <2> QED
      BY <2>4, <2>11
  <1>3. N \in P
    <2> HIDE DEF P
    <2>1. 0..N \subseteq P
      BY <1>1, <1>2, IntervalInduction
    <2> QED
      BY <2>1
  <1>4. J = [i \in 0..N |-> value(J, i)]
    <2>1. \E f : f = [i \in 0..N |-> value(f, i)]
      BY <1>3
    <2> HIDE DEF value
    <2> QED
      BY <2>1
  <1>5. WithVariants(start, call, objects) = J[N]
    BY DEF WithVariants
  <1>6. \A i \in 0..N : J[i] = value(J, i)
    <2> HIDE DEF J, value
    <2> QED
      BY <1>4
  <1>7. 0 \in 0..N /\ \A i \in 1..N : i \in 0..N /\ i # 0
    OBVIOUS
  <1>8. J[0] = start /\ \A i \in 1..N : J[i] = AddVariant(J[i - 1], call, objects[i])
    <2> HIDE DEF J
    <2> QED
      BY <1>6, <1>7
  <1> HIDE DEF J
  <1> QED
    BY <1>5, <1>8

\* The selections of a call are added one after the other.
LEMMA WithSelectionsIs ==
    ASSUME NEW start, NEW call, NEW N \in Nat, N = Len(call.set)
    PROVE  \E f : /\ WithSelections(start, call) = f[N] /\ f[0] = start
                  /\ \A i \in 1..N : f[i] = AddSelection(f[i - 1], call, call.set[i])
  <1> DEFINE value(f, i) == IF i = 0 THEN start ELSE AddSelection(f[i - 1], call, call.set[i])
             P == {m \in 0..N : \E f : f = [i \in 0..m |-> value(f, i)]}
             J == CHOOSE f : f = [i \in 0..N |-> value(f, i)]
  <1>1. 0 \in P
    <2>1. PICK f : f = [i \in 0..0 |-> start]
      OBVIOUS
    <2>2. \A i \in 0..0 : i = 0
      OBVIOUS
    <2>3. f = [i \in 0..0 |-> value(f, i)]
      BY <2>1, <2>2, Zenon
    <2>4. 0 \in 0..N
      OBVIOUS
    <2> QED
      BY <2>3, <2>4
  <1>2. ASSUME NEW m \in 0..N - 1, m \in P
        PROVE  m + 1 \in P
    <2>1. PICK f : f = [i \in 0..m |-> value(f, i)]
      BY <1>2
    <2>2. PICK last : last = value(f, m + 1)
      OBVIOUS
    <2>3. PICK g : g = [i \in 0..m + 1 |-> IF i = m + 1 THEN last ELSE f[i]]
      OBVIOUS
    <2>4. /\ m + 1 # 0 /\ m + 1 - 1 = m /\ m + 1 \in 0..m + 1 /\ m + 1 \in 0..N
          /\ \A i \in 0..m : i \in 0..m + 1 /\ i # m + 1
          /\ \A i \in 0..m + 1 : i = m + 1 \/ i \in 0..m
          /\ \A i \in 0..m : i # 0 => i - 1 \in 0..m
          /\ m \in 0..m
      OBVIOUS
    <2>5. g[m + 1] = last /\ \A i \in 0..m : g[i] = f[i]
      BY <2>3, <2>4
    <2>6. \A i \in 0..m : f[i] = value(f, i)
      <3> HIDE DEF value
      <3> QED
        BY <2>1
    <2>7. \A i \in 0..m : value(f, i) = value(g, i)
      BY <2>4, <2>5
    <2>8. last = value(g, m + 1)
      BY <2>2, <2>4, <2>5
    <2> HIDE DEF value
    <2>9. \A i \in 0..m + 1 : g[i] = value(g, i)
      BY <2>4, <2>5, <2>6, <2>7, <2>8
    <2>10. g = [i \in 0..m + 1 |-> g[i]]
      BY <2>3
    <2>11. g = [i \in 0..m + 1 |-> value(g, i)]
      BY <2>9, <2>10, Zenon
    <2> QED
      BY <2>4, <2>11
  <1>3. N \in P
    <2> HIDE DEF P
    <2>1. 0..N \subseteq P
      BY <1>1, <1>2, IntervalInduction
    <2> QED
      BY <2>1
  <1>4. J = [i \in 0..N |-> value(J, i)]
    <2>1. \E f : f = [i \in 0..N |-> value(f, i)]
      BY <1>3
    <2> HIDE DEF value
    <2> QED
      BY <2>1
  <1>5. WithSelections(start, call) = J[N]
    BY DEF WithSelections
  <1>6. \A i \in 0..N : J[i] = value(J, i)
    <2> HIDE DEF J, value
    <2> QED
      BY <1>4
  <1>7. 0 \in 0..N /\ \A i \in 1..N : i \in 0..N /\ i # 0
    OBVIOUS
  <1>8. J[0] = start /\ \A i \in 1..N : J[i] = AddSelection(J[i - 1], call, call.set[i])
    <2> HIDE DEF J
    <2> QED
      BY <1>6, <1>7
  <1> HIDE DEF J
  <1> QED
    BY <1>5, <1>8

LEMMA ObjectsAre ==
    ASSUME NEW type \in DOMAIN KindOf
    PROVE  ObjectsOf(type) \in Seq(DOMAIN KindOf)
  <1>1. CASE KindOf[type] = "Interface"
    <2>1. PICK S : ObjectsOf(type) = Among(Objects, S)
      BY <1>1 DEF ObjectsOf
    <2>2. Among(Objects, S) \in Seq((DOMAIN KindOf) \cap S)
      BY SchemaAssumption, AmongIs
    <2> QED
      BY <2>1, <2>2
  <1>2. CASE KindOf[type] = "Union"
    BY <1>2, SchemaAssumption DEF ObjectsOf
  <1>3. CASE KindOf[type] \notin {"Interface", "Union"}
    <2>1. ObjectsOf(type) = <<>>
      BY <1>3 DEF ObjectsOf
    <2> QED
      BY <2>1
  <1> QED
    BY <1>1, <1>2, <1>3

\* calculate_selection names what is used, and makes calls for the same root.
LEMMA CalculationKeeps ==
    ASSUME NEW root, Drawing(root), TypedInv, NEW call, Fitting(call, root),
           Described(context, root)
    PROVE  Doing(calculate_selection(call), root)
  <1>1. PICK start, objects :
          /\ start = [calls |-> <<>>, types |-> context.types, fields |-> context.fields,
                      variants |-> context.variants, aliases |-> context.aliases]
          /\ objects = ObjectsOf(call.on)
    OBVIOUS
  <1>2. /\ start.calls = <<>> /\ start.types = context.types /\ start.fields = context.fields
        /\ start.variants = context.variants /\ start.aliases = context.aliases
    BY <1>1
  <1>3. Doing(start, root)
    <2>1. IsSequence(<<>>) /\ ToSet(<<>>) = {}
      BY DEF IsSequence, ToSet
    <2>2. Described(start, root)
      BY <1>2 DEF Described
    <2> QED
      BY <1>1, <1>2, <2>1, <2>2 DEF Doing
  <1>4. call.set \in Seq(MadeFor(root)) /\ call.on \in DOMAIN KindOf
    BY DEF Fitting
  <1>5. CASE IsLoneSpread(call.set)
    <2>1. PICK a, X :
            a = AliasOf(call.struct, Node(call.set[1])[2]) /\ X = context.aliases \cup {a}
      OBVIOUS
    <2>2. calculate_selection(call) = [start EXCEPT !.aliases = X]
      <3>1. calculate_selection(call) = [start EXCEPT !.aliases = @ \cup {a}]
        BY <1>1, <1>5, <2>1 DEF calculate_selection
      <3> QED
        BY <1>2, <2>1, <3>1, Zenon
    <2>3. calculate_selection(call) =
            [calls |-> <<>>, types |-> context.types, fields |-> context.fields,
             variants |-> context.variants, aliases |-> X]
      BY <1>1, <2>2, ContextWith
    <2>4. UsedName(a.name)
      <3>1. Len(call.set) = 1 /\ Node(call.set[1])[1] = "FragmentSpread"
        BY <1>5 DEF IsLoneSpread
      <3>2. call.set[1] \in MadeFor(root)
        BY <1>4, <3>1
      <3> QED
        BY <2>1, <3>1, <3>2, AliasIs
    <2>5. IsSequence(start.calls) /\ IsSequence(start.fields)
      BY <1>3 DEF Doing, Described
    <2> QED
      BY <1>2, <1>3, <2>1, <2>3, <2>4, <2>5, DoingGrows
  <1>6. CASE ~IsLoneSpread(call.set)
    <2>1. PICK N \in Nat, M \in Nat : N = Len(objects) /\ M = Len(call.set)
      <3>1. Len(objects) \in Nat /\ Len(call.set) \in Nat
        BY <1>1, <1>4, ObjectsAre
      <3> QED
        BY <3>1
    <2>2. PICK f : /\ WithVariants(start, call, objects) = f[N] /\ f[0] = start
                   /\ \A i \in 1..N : f[i] = AddVariant(f[i - 1], call, objects[i])
      BY <2>1, WithVariantsIs
    <2>3. Doing(f[N], root)
      <3> DEFINE P == {i \in 0..N : Doing(f[i], root)}
      <3>1. 0 \in P
        BY <1>3, <2>2
      <3>2. ASSUME NEW i \in 0..N - 1, i \in P
            PROVE  i + 1 \in P
        <4>1. i + 1 \in 1..N /\ i + 1 - 1 = i /\ i + 1 \in 0..N
          OBVIOUS
        <4>2. objects[i + 1] \in DOMAIN KindOf
          BY <1>1, <1>4, <2>1, <4>1, ObjectsAre
        <4>3. Doing(AddVariant(f[i], call, objects[i + 1]), root)
          BY <3>2, <4>2, VariantKeeps
        <4>4. f[i + 1] = AddVariant(f[i], call, objects[i + 1])
          BY <2>2, <4>1
        <4> QED
          BY <4>1, <4>3, <4>4
      <3> HIDE DEF P
      <3>3. 0..N \subseteq P
        BY <3>1, <3>2, IntervalInduction
      <3> QED
        BY <3>3 DEF P
    <2>4. PICK middle : middle = f[N]
      OBVIOUS
    <2>5. PICK g : /\ WithSelections(middle, call) = g[M] /\ g[0] = middle
                   /\ \A i \in 1..M : g[i] = AddSelection(g[i - 1], call, call.set[i])
      <3>1. M \in Nat /\ M = Len(call.set)
        BY <2>1
      <3>2. \E h : /\ WithSelections(middle, call) = h[M] /\ h[0] = middle
                  /\ \A i \in 1..M : h[i] = AddSelection(h[i - 1], call, call.set[i])
        BY <3>1, WithSelectionsIs
      <3> QED
        BY <3>2, Zenon
    <2>6. Doing(g[M], root)
      <3> DEFINE P == {i \in 0..M : Doing(g[i], root)}
      <3>1. 0 \in P
        BY <2>3, <2>4, <2>5
      <3>2. ASSUME NEW i \in 0..M - 1, i \in P
            PROVE  i + 1 \in P
        <4>1. i + 1 \in 1..M /\ i + 1 - 1 = i /\ i + 1 \in 0..M
          OBVIOUS
        <4>2. call.set[i + 1] \in MadeFor(root)
          BY <1>4, <2>1, <4>1
        <4>3. Doing(AddSelection(g[i], call, call.set[i + 1]), root)
          BY <3>2, <4>2, SelectionKeeps
        <4>4. g[i + 1] = AddSelection(g[i], call, call.set[i + 1])
          BY <2>5, <4>1
        <4> QED
          BY <4>1, <4>3, <4>4
      <3> HIDE DEF P
      <3>3. 0..M \subseteq P
        BY <3>1, <3>2, IntervalInduction
      <3> QED
        BY <3>3 DEF P
    <2>7. calculate_selection(call) = WithSelections(WithVariants(start, call, objects), call)
      BY <1>1, <1>6 DEF calculate_selection
    <2> QED
      BY <2>2, <2>4, <2>5, <2>6, <2>7
  <1> QED
    BY <1>5, <1>6

\* What is said of what is rendered does not change with what it is said of.
LEMMA SaidStays ==
    ASSUME UNCHANGED <<query, made_for, operation, walk, used>>
    PROVE  /\ Searched' = Searched /\ Resolved' = Resolved
           /\ \A call, root : Fitting(call, root)' = Fitting(call, root)
           /\ \A c, root : Described(c, root)' = Described(c, root)
  <1>1. \A n : UsedName(n)' = UsedName(n)
    BY DEF UsedName
  <1>2. \A types, field : Named(types, field)' = Named(types, field)
    BY <1>1 DEF Named, FieldType, Node, IsComposite
  <1>3. \A root : MadeFor(root)' = MadeFor(root)
    BY DEF MadeFor, Ids
  <1>4. Searched' = Searched /\ Resolved' = Resolved
    BY DEF Searched, Resolved
  <1>5. \A call, root : Fitting(call, root)' = Fitting(call, root)
    BY <1>3 DEF Fitting
  <1>6. \A c, root : Described(c, root)' = Described(c, root)
    BY <1>1, <1>2 DEF Described
  <1> QED
    BY <1>4, <1>5, <1>6

\* Nothing is rendered before the walk is over.
LEMMA NothingRendered ==
    ASSUME RenderInv, ~Resolved, UNCHANGED <<rendering, context, calls, rendered>>
    PROVE  RenderInv'
  <1>1. rendering = <<>> /\ calls = <<>> /\ DOMAIN rendered = {}
    BY DEF RenderInv
  <1> QED
    BY <1>1 DEF RenderInv

\* The context of a root and the calls made for it, once they are what a step leaves.
LEMMA RenderingIs ==
    ASSUME RenderInv, NEW root, NEW c, NEW k,
           Resolved, root \in Searched, DOMAIN c = {"types", "fields", "variants", "aliases"},
           Described(c, root), IsSequence(k), \A call \in ToSet(k) : Fitting(call, root),
           root[1] = "Operation" => FragmentsRendered, root # <<>>,
           rendering' = root, context' = c, calls' = k,
           UNCHANGED <<query, made_for, operation, walk, used, rendered>>
    PROVE  RenderInv'
  <1>1. /\ Searched' = Searched /\ Resolved' = Resolved
        /\ \A call, r : Fitting(call, r)' = Fitting(call, r)
        /\ \A d, r : Described(d, r)' = Described(d, r)
    BY SaidStays
  <1>2. FragmentsRendered' = FragmentsRendered
    BY DEF FragmentsRendered
  <1>3. Described(context, rendering)'
    <2>1. Described(c, root)'
      BY <1>1
    <2> QED
      BY <2>1
  <1>4. \A call \in ToSet(calls') : Fitting(call, rendering)'
    <2>1. \A call \in ToSet(k) : Fitting(call, root)'
      BY <1>1
    <2> QED
      BY <2>1
  <1>5. \A r \in DOMAIN rendered' : Described(rendered[r], r)'
    <2>1. ASSUME NEW r \in DOMAIN rendered
          PROVE  Described(rendered[r], r)'
      <3>1. PICK d : d = rendered[r]
        OBVIOUS
      <3>2. Described(d, r)'
        BY <1>1, <3>1 DEF RenderInv
      <3> QED
        BY <3>1, <3>2
    <2> QED
      BY <2>1
  <1> QED
    BY <1>1, <1>2, <1>3, <1>4, <1>5 DEF RenderInv

\* A root is walked before it is rendered, and selects what is made for it.
LEMMA RenderNextKeeps ==
    ASSUME ResolutionInv, WalkInv, TypedInv, RenderInv, RenderNext
    PROVE  RenderInv'
  <1>1. PICK waiting, root, named, on, t, c, k :
          /\ waiting = {f \in used.fragments : <<"Fragment", f>> \notin DOMAIN rendered}
          /\ root = IF waiting # {} THEN <<"Fragment", CHOOSE f \in waiting : TRUE>>
                    ELSE <<"Operation", operation[1]>>
          /\ named = IF waiting # {} THEN query.fragments[root[2]] ELSE query.operations[root[2]]
          /\ on = schema_type_id(root) /\ t = Type(<<named.name>>, SetOf(root), on)
          /\ c = [NewContext EXCEPT !.types = <<t>>] /\ k = Call(1, SetOf(root), on)
          /\ rendering' = root /\ context' = c /\ calls' = <<k>>
    BY DEF RenderNext
  <1>2. /\ Resolved /\ operation # <<>> /\ phase = "resolved" /\ phase \in Ended
        /\ operation[1] \in DOMAIN query.operations
        /\ used.fragments \subseteq DOMAIN query.fragments
        /\ UNCHANGED <<query, made_for, operation, walk, used, rendered>>
    BY DEF RenderNext, WalkInv, Resolved, Ended, rvars
  <1>3. IsSequence(query.fragments) /\ IsSequence(query.operations)
    BY <1>2 DEF ResolutionInv, Working, Building, Recorded
  <1>4. /\ root \in Searched /\ root \in Roots(query) /\ on \in DOMAIN KindOf
        /\ root[1] = "Operation" => FragmentsRendered
        /\ root[1] = "Fragment" => named = query.fragments[root[2]]
    <2>1. CASE waiting # {}
      <3>1. PICK f \in waiting : root = <<"Fragment", f>>
        BY <1>1, <2>1
      <3>2. f \in used.fragments /\ f \in DOMAIN query.fragments
        BY <1>1, <1>2, <3>1
      <3>3. on = query.fragments[f].on /\ named = query.fragments[f]
        <4>1. root[1] = "Fragment" /\ root[2] = f
          BY <3>1
        <4>2. schema_type_id(root) = query.fragments[root[2]].on
          BY <4>1 DEF schema_type_id
        <4> QED
          BY <1>1, <2>1, <4>1, <4>2
      <3>4. on \in DOMAIN KindOf
        BY <3>2, <3>3 DEF TypedInv
      <3>5. root \in Roots(query)
        BY <1>3, <3>1, <3>2, SequenceIs DEF Roots
      <3> QED
        BY <3>1, <3>2, <3>3, <3>4, <3>5 DEF Searched
    <2>2. CASE waiting = {}
      <3>1. PICK o : o = operation[1] /\ o \in DOMAIN query.operations /\ root = <<"Operation", o>>
        BY <1>1, <1>2, <2>2
      <3>2. on = query.operations[o].object_id
        <4>1. root[1] = "Operation" /\ root[2] = o
          BY <3>1
        <4>2. schema_type_id(root) = query.operations[root[2]].object_id
          BY <4>1 DEF schema_type_id
        <4> QED
          BY <1>1, <4>1, <4>2
      <3>3. on \in DOMAIN KindOf
        BY <3>1, <3>2 DEF TypedInv
      <3>4. root \in Roots(query)
        BY <1>3, <3>1, SequenceIs DEF Roots
      <3>5. FragmentsRendered
        BY <1>1, <2>2 DEF FragmentsRendered
      <3> QED
        BY <3>1, <3>3, <3>4, <3>5 DEF Searched
    <2> QED
      BY <2>1, <2>2
  <1>5. SetOf(root) \in Seq(MadeFor(root))
    <2>1. PICK s : s = SetOf(root)
      OBVIOUS
    <2>2. s \in Seq(Ids(query)) /\ \A id \in ToSet(s) : made_for[id] = root
      BY <1>2, <1>4, <2>1, SetsAre
    <2>3. ToSet(s) \subseteq MadeFor(root) /\ s \in Seq(ToSet(s))
      BY <2>2, ElementsOf DEF MadeFor
    <2>4. s \in Seq(MadeFor(root))
      BY <2>3
    <2> QED
      BY <2>1, <2>4
  <1>6. /\ c.types = <<t>> /\ c.fields = <<>> /\ c.aliases = {}
        /\ DOMAIN c = {"types", "fields", "variants", "aliases"}
        /\ t.name = <<named.name>>
    BY <1>1 DEF NewContext, Type
  <1>7. Described(c, root)
    <2>1. IsSequence(<<t>>) /\ Len(<<t>>) > 0 /\ <<t>>[1] = t
      BY DEF IsSequence
    <2>2. IsSequence(<<>>) /\ ToSet(<<>>) = {}
      BY DEF IsSequence, ToSet
    <2> QED
      BY <1>4, <1>6, <2>1, <2>2 DEF Described
  <1>8. Fitting(k, root)
    <2>1. k.set = SetOf(root) /\ k.on = on
      BY <1>1 DEF Call
    <2> QED
      BY <1>4, <1>5, <2>1 DEF Fitting
  <1>9. IsSequence(<<k>>) /\ ToSet(<<k>>) = {k} /\ root # <<>>
    <2>1. IsSequence(<<k>>) /\ ToSet(<<k>>) = {k}
      BY DEF IsSequence, ToSet
    <2>2. root # <<>>
      BY <1>1
    <2> QED
      BY <2>1, <2>2
  <1>10. \A call \in ToSet(<<k>>) : Fitting(call, root)
    BY <1>8, <1>9
  <1> QED
    BY <1>1, <1>2, <1>4, <1>6, <1>7, <1>9, <1>10, RenderingIs

\* A call of calculate_selection leaves a context of the root and calls for it.
LEMMA CalculateKeeps ==
    ASSUME ResolutionInv, WalkInv, TypedInv, RenderInv, CalculateSelection
    PROVE  RenderInv'
  <1>1. PICK root, call, done, c, k :
          /\ root = rendering /\ call = Head(calls) /\ done = calculate_selection(call)
          /\ c = [part \in DOMAIN context |-> done[part]] /\ k = done.calls \o Tail(calls)
          /\ context' = c /\ calls' = k /\ rendering' = root
    BY DEF CalculateSelection
  <1>2. /\ calls # <<>> /\ UNCHANGED <<query, made_for, operation, walk, used, rendered>>
    BY DEF CalculateSelection, rvars
  <1>3. /\ root # <<>> /\ Resolved /\ root \in Searched
        /\ DOMAIN context = {"types", "fields", "variants", "aliases"}
        /\ Described(context, root)
        /\ IsSequence(calls) /\ \A x \in ToSet(calls) : Fitting(x, root)
        /\ root[1] = "Operation" => FragmentsRendered
    BY <1>1, <1>2 DEF RenderInv
  <1>4. ToSet(calls) = {call} \cup ToSet(Tail(calls)) /\ calls \in Seq(ToSet(calls))
    <2>1. calls \in Seq(ToSet(calls))
      BY <1>3 DEF IsSequence, ToSet
    <2>2. <<>> \in Seq(ToSet(calls))
      OBVIOUS
    <2> QED
      BY <1>1, <1>2, <2>1, <2>2, WalkedSequence
  <1>5. Doing(done, root)
    <2>1. Drawing(root)
      BY <1>3 DEF Drawing, WalkInv, Resolved, Ended
    <2>2. Fitting(call, root)
      BY <1>3, <1>4
    <2> QED
      BY <1>1, <1>3, <2>1, <2>2, CalculationKeeps
  <1>6. /\ DOMAIN c = {"types", "fields", "variants", "aliases"}
        /\ c.types = done.types /\ c.fields = done.fields /\ c.aliases = done.aliases
    BY <1>1, <1>3
  <1>7. Described(c, root)
    <2>1. Described(done, root)
      BY <1>5 DEF Doing
    <2> QED
      BY <1>6, <2>1 DEF Described
  <1>8. IsSequence(k) /\ \A x \in ToSet(k) : Fitting(x, root)
    <2>1. PICK X, D : D = done.calls /\ X = ToSet(calls) \cup ToSet(D)
      OBVIOUS
    <2>2. IsSequence(D) /\ \A x \in ToSet(D) : Fitting(x, root)
      BY <1>5, <2>1 DEF Doing
    <2>3. D \in Seq(X) /\ calls \in Seq(X)
      <3>1. D \in Seq(ToSet(D))
        BY <2>2 DEF IsSequence, ToSet
      <3> QED
        BY <1>4, <2>1, <3>1
    <2>4. k \in Seq(X) /\ ToSet(k) = ToSet(D) \cup ToSet(Tail(calls))
      BY <1>1, <1>2, <2>1, <2>3, WalkedSequence
    <2>5. IsSequence(k)
      BY <2>4, SequenceOf
    <2> QED
      BY <1>3, <1>4, <2>2, <2>4, <2>5
  <1> QED
    BY <1>1, <1>2, <1>3, <1>6, <1>7, <1>8, RenderingIs

\* What has been rendered is kept for its root.
LEMMA RenderedKeeps ==
    ASSUME RenderInv, Rendered
    PROVE  RenderInv'
  <1>1. PICK root, c :
          /\ root = rendering /\ c = context /\ root # <<>>
          /\ rendered' = [r \in DOMAIN rendered \cup {root} |-> IF r = root THEN c ELSE rendered[r]]
          /\ rendering' = <<>> /\ calls' = calls /\ calls = <<>>
          /\ UNCHANGED <<query, made_for, operation, walk, used>>
    BY DEF Rendered, rvars
  <1>2. /\ Resolved /\ root \in Searched /\ Described(c, root)
        /\ root[1] = "Operation" => FragmentsRendered
    BY <1>1 DEF RenderInv
  <1>3. /\ Searched' = Searched /\ Resolved' = Resolved
        /\ \A d, r : Described(d, r)' = Described(d, r)
    BY <1>1, SaidStays
  <1>4. FragmentsRendered => FragmentsRendered'
    <2>1. DOMAIN rendered \subseteq DOMAIN rendered'
      BY <1>1
    <2> QED
      BY <1>1, <2>1 DEF FragmentsRendered
  <1>5. ASSUME NEW r \in DOMAIN rendered'
        PROVE  /\ Resolved /\ r \in Searched /\ Described(rendered[r], r)'
               /\ r[1] = "Operation" => FragmentsRendered'
    <2>1. PICK d : d = rendered'[r]
      OBVIOUS
    <2>2. CASE r = root
      <3>1. d = c
        BY <1>1, <2>1, <2>2
      <3>2. Described(d, r)'
        BY <1>2, <1>3, <2>2, <3>1
      <3> QED
        BY <1>2, <1>4, <2>1, <2>2, <3>2
    <2>3. CASE r # root
      <3>1. r \in DOMAIN rendered /\ d = rendered[r]
        BY <1>1, <2>1, <2>3
      <3>2. /\ Resolved /\ r \in Searched /\ Described(d, r)
            /\ r[1] = "Operation" => FragmentsRendered
        BY <3>1 DEF RenderInv
      <3>3. Described(d, r)'
        BY <1>3, <3>2
      <3> QED
        BY <1>4, <2>1, <3>2, <3>3
    <2> QED
      BY <2>2, <2>3
  <1> QED
    BY <1>1, <1>3, <1>5 DEF RenderInv

LEMMA RenderSteps ==
    ASSUME ResolutionInv, WalkInv, TypedInv, RenderInv, [Next]_vars
    PROVE  RenderInv'
  <1>1. CASE Resolving /\ UNCHANGED gvars
    BY <1>1, ResolvingIsOver, NothingRendered DEF gvars, Resolved
  <1>2. CASE SelectOperation
    BY <1>2, NothingRendered DEF SelectOperation, Resolved
  <1>3. CASE Visiting
    <2>1. UNCHANGED <<rendering, context, calls, rendered>>
      BY <1>3 DEF Visiting, VisitField, VisitInlineFragment, VisitFragmentSpread, VisitTypename, Walked
    <2> QED
      BY <1>3, <2>1, VisitingIs, NothingRendered DEF Resolved
  <1>4. CASE RenderNext
    BY <1>4, RenderNextKeeps
  <1>5. CASE CalculateSelection
    BY <1>5, CalculateKeeps
  <1>6. CASE Rendered
    BY <1>6, RenderedKeeps
  <1>7. CASE UNCHANGED vars
    <2>1. /\ UNCHANGED <<query, made_for, operation, walk, used>>
          /\ UNCHANGED <<rendering, context, calls, rendered>>
      BY <1>7 DEF vars, gvars, rvars
    <2>2. CASE rendering # <<>>
      <3>1. PICK root, c, k : root = rendering /\ c = context /\ k = calls
        OBVIOUS
      <3>2. /\ Resolved /\ root \in Searched /\ DOMAIN c = {"types", "fields", "variants", "aliases"}
            /\ Described(c, root) /\ IsSequence(k) /\ \A call \in ToSet(k) : Fitting(call, root)
            /\ root[1] = "Operation" => FragmentsRendered
        BY <2>2, <3>1 DEF RenderInv
      <3> QED
        BY <2>1, <2>2, <3>1, <3>2, RenderingIs
    <2>3. CASE rendering = <<>> /\ Resolved
      <3>1. /\ Searched' = Searched /\ Resolved' = Resolved
            /\ \A d, r : Described(d, r)' = Described(d, r)
        BY <2>1, SaidStays
      <3>2. ASSUME NEW r \in DOMAIN rendered
            PROVE  Described(rendered[r], r)'
        <4>1. PICK d : d = rendered[r]
          OBVIOUS
        <4>2. Described(d, r)'
          BY <3>1, <4>1 DEF RenderInv
        <4> QED
          BY <2>1, <4>1, <4>2
      <3>3. FragmentsRendered' = FragmentsRendered
        BY <2>1 DEF FragmentsRendered
      <3> QED
        BY <2>1, <2>3, <3>1, <3>2, <3>3 DEF RenderInv
    <2>4. CASE ~Resolved
      BY <2>1, <2>4, NothingRendered
    <2> QED
      BY <2>2, <2>3, <2>4
  <1> QED
    BY <1>1, <1>2, <1>3, <1>4, <1>5, <1>6, <1>7 DEF Next, Resolving, Visiting

\* Once the operation is rendered every fragment used is, and what is named is defined.
LEMMA NothingIsMissing ==
    ASSUME RenderInv
    PROVE  NothingDangles
  <1>1. SUFFICES ASSUME Done
                 PROVE  NothingDangles
    BY DEF NothingDangles
  <1>2. FragmentsRendered
    <2>1. PICK r \in DOMAIN rendered : r = <<"Operation", operation[1]>>
      BY <1>1 DEF Done
    <2>2. r[1] = "Operation"
      BY <2>1
    <2> QED
      BY <2>1, <2>2 DEF RenderInv
  <1>3. PICK defined : defined = {TypeAt(s).name : s \in Structs}
    OBVIOUS
  <1>4. ASSUME NEW r \in DOMAIN rendered, NEW i \in DOMAIN rendered[r].types
        PROVE  rendered[r].types[i].name \in defined
    <2>1. PICK s : s = <<r, i>>
      OBVIOUS
    <2>2. s \in Structs /\ TypeAt(s) = rendered[r].types[i]
      BY <2>1 DEF Structs, TypeAt
    <2> QED
      BY <1>3, <2>2
  <1>5. ASSUME NEW n, UsedName(n)
        PROVE  n \in defined
    <2>1. PICK f \in used.fragments : n = <<query.fragments[f].name>>
      BY <1>5 DEF UsedName
    <2>2. PICK r : r = <<"Fragment", f>>
      OBVIOUS
    <2>3. r \in DOMAIN rendered /\ r[1] = "Fragment" /\ r[2] = f
      BY <1>2, <2>2 DEF FragmentsRendered
    <2>4. Described(rendered[r], r)
      BY <2>3 DEF RenderInv
    <2>5. 1 \in DOMAIN rendered[r].types /\ rendered[r].types[1].name = n
      BY <2>1, <2>3, <2>4, SequenceIs DEF Described
    <2> QED
      BY <1>4, <2>3, <2>5
  <1>6. ASSUME NEW r \in DOMAIN rendered
        PROVE  /\ \A f \in ToSet(rendered[r].fields) :
                    IF f.flatten \/ IsComposite(FieldType(f.id)) THEN f.type \in defined
                    ELSE f.type[1] \in used.types
               /\ \A a \in rendered[r].aliases : a.name \in defined
    <2>1. Described(rendered[r], r)
      BY DEF RenderInv
    <2>2. PICK T : T = ToSet(rendered[r].types)
      OBVIOUS
    <2>3. \A t \in T : t.name \in defined
      BY <1>4, <2>2 DEF ToSet
    <2>4. /\ \A f \in ToSet(rendered[r].fields) : Named(T, f)
          /\ \A a \in rendered[r].aliases : UsedName(a.name)
      BY <2>1, <2>2 DEF Described
    <2>5. ASSUME NEW f \in ToSet(rendered[r].fields)
          PROVE  IF f.flatten \/ IsComposite(FieldType(f.id)) THEN f.type \in defined
                 ELSE f.type[1] \in used.types
      <3>1. Named(T, f)
        BY <2>4
      <3>2. CASE f.flatten
        BY <1>5, <3>1, <3>2 DEF Named
      <3>3. CASE ~f.flatten /\ IsComposite(FieldType(f.id))
        BY <2>3, <3>1, <3>3 DEF Named
      <3>4. CASE ~f.flatten /\ ~IsComposite(FieldType(f.id))
        BY <3>1, <3>4 DEF Named
      <3> QED
        BY <3>2, <3>3, <3>4
    <2>6. \A a \in rendered[r].aliases : a.name \in defined
      BY <1>5, <2>4
    <2> QED
      BY <2>5, <2>6
  <1> QED
    BY <1>3, <1>6 DEF NothingDangles

\* Every type the generated module names is defined in it, whatever the schema and the
\* document: the fragments and the types of fields that calculate_selection names are
\* those collect_used_types has found before, although each walks the query in its own
\* way, the one by selections, the other by variants (query.rs, codegen/selection.rs).
THEOREM NothingIsDangling == Spec => []NothingDangles
  <1>1. Init => RenderInv
    BY DEF Init, RenderInv
  <1>2. ResolutionInv /\ WalkInv /\ TypedInv /\ RenderInv /\ [Next]_vars => RenderInv'
    BY RenderSteps
  <1>3. RenderInv => NothingDangles
    BY NothingIsMissing
  <1> QED
    BY <1>1, <1>2, <1>3, WalkHolds, TypedHolds, PTL DEF Spec
==============================================================================
