------------------------------ MODULE ProtoOrder ------------------------------
(***************************************************************************)
(* render_proto() of proto/render_all.py: it checks the names of the       *)
(* descriptions it is given and of what they use, counts how often each is *)
(* used, orders them by these counts and renders them in that order.  All  *)
(* three walks use a stack; what they know of a description is its name.   *)
(***************************************************************************)
EXTENDS Integers, Sequences, SequencesExt

CONSTANT Inputs  \* descriptions: records of kind, children and name of each
                 \* object, and the sequence heads of those given

VARIABLES
  progress,       \* "idle", "validate", "count", "order", "render", "rendered", "raised"
  input,
  objs_stack,
  objs_by_name,
  entries_count,  \* its domain is visited in count_entries()
  order,
  rendered        \* the structures and unions defined so far

vars == <<progress, input, objs_stack, objs_by_name, entries_count, order, rendered>>

\* Descriptions get what they use when they are constructed: a structure its
\* fields, a field its one union, a union its structures.  So in every set of them
\* one is used by no other of the set.
IsDescription(i) ==
  LET objects == DOMAIN i.kind
      Kinds(o) == {i.kind[c] : c \in ToSet(i.children[o])}
  IN  /\ i.kind \in [objects -> {"struct", "field", "union", "enum"}]
      /\ i.children \in [objects -> Seq(objects)]
      /\ i.name \in [objects -> Int] /\ i.heads \in Seq(objects)
      /\ \A o \in objects :
           /\ i.kind[o] = "struct" => Kinds(o) \subseteq {"struct", "field", "enum"}
           /\ i.kind[o] = "field" => Kinds(o) = {"union"}
           /\ i.kind[o] = "union" => Kinds(o) \subseteq {"struct"}
      /\ \A used \in (SUBSET objects) \ {{}} :
           \E o \in used : \A user \in used : o \notin ToSet(i.children[user])

NoInput == [kind |-> <<>>, children |-> <<>>, name |-> <<>>, heads |-> <<>>]

Init ==
  /\ progress = "idle" /\ input = NoInput /\ objs_stack = <<>>
  /\ objs_by_name = <<>> /\ entries_count = <<>> /\ order = <<>> /\ rendered = <<>>

\* The name of an enum cannot be taken: isinstance(o, Enum) holds for its
\* members and not for the enum itself.
HasName(o) == input.kind[o] # "enum"

get_name(o) == input.name[o]
get_children(o) == input.children[o]

\* A dictionary with one more entry.
With(dict, key, value) == [k \in DOMAIN dict \cup {key} |-> IF k = key THEN value ELSE dict[k]]

popped == Last(objs_stack)
rest == Front(objs_stack)

render_proto(i) ==
  /\ progress = "idle"
  /\ input' = i /\ progress' = "validate" /\ objs_stack' = i.heads
  /\ UNCHANGED <<objs_by_name, entries_count, order, rendered>>

------------------------------------------------------------------------------
\* A validation that takes the second object of a name for the first.
MutValidate ==
  /\ progress = "validate" /\ objs_stack # <<>>
  /\ HasName(popped)
  /\ IF get_name(popped) \in DOMAIN objs_by_name
     THEN objs_stack' = rest /\ UNCHANGED objs_by_name
     ELSE /\ objs_by_name' = With(objs_by_name, get_name(popped), popped)
          /\ objs_stack' = rest \o get_children(popped)
  /\ UNCHANGED <<progress, input, entries_count, order, rendered>>

validate_duplicates ==
  /\ progress = "validate" /\ objs_stack # <<>>
  /\ HasName(popped)
  /\ IF get_name(popped) \in DOMAIN objs_by_name
     THEN /\ objs_by_name[get_name(popped)] = popped
          /\ objs_stack' = rest /\ UNCHANGED objs_by_name
     ELSE /\ objs_by_name' = With(objs_by_name, get_name(popped), popped)
          /\ objs_stack' = rest \o get_children(popped)
  /\ UNCHANGED <<progress, input, entries_count, order, rendered>>

\* AttributeError from get_name(), or ValueError because two objects share a name.
validate_raises ==
  /\ progress = "validate" /\ objs_stack # <<>>
  /\ \/ ~HasName(popped)
     \/ /\ HasName(popped) /\ get_name(popped) \in DOMAIN objs_by_name
        /\ objs_by_name[get_name(popped)] # popped
  /\ progress' = "raised"
  /\ UNCHANGED <<input, objs_stack, objs_by_name, entries_count, order, rendered>>

validated ==
  /\ progress = "validate" /\ objs_stack = <<>>
  /\ progress' = "count" /\ objs_stack' = input.heads
  /\ UNCHANGED <<input, objs_by_name, entries_count, order, rendered>>

count_entries ==
  /\ progress = "count" /\ objs_stack # <<>>
  /\ IF get_name(popped) \in DOMAIN entries_count
     THEN /\ entries_count' = [entries_count EXCEPT ![get_name(popped)] = @ + 1]
          /\ objs_stack' = rest
     ELSE /\ entries_count' = With(entries_count, get_name(popped), 1)
          /\ objs_stack' = rest \o get_children(popped)
  /\ UNCHANGED <<progress, input, objs_by_name, order, rendered>>

counted ==
  /\ progress = "count" /\ objs_stack = <<>>
  /\ progress' = "order" /\ objs_stack' = input.heads
  /\ UNCHANGED <<input, objs_by_name, entries_count, order, rendered>>

SortedChildren(o) ==
  LET children == get_children(o)
      places == DOMAIN children
      place == CHOOSE p \in Bijection(places, places) :
        \A i, j \in places : i < j => get_name(children[p[i]]) <= get_name(children[p[j]])
  IN  [i \in places |-> children[place[i]]]

\* An order by first visits, without the counts.
MutOrderDescrs ==
  /\ progress = "order" /\ objs_stack # <<>>
  /\ IF popped \in ToSet(order)
     THEN objs_stack' = rest /\ UNCHANGED order
     ELSE /\ order' = Append(order, popped)
          /\ objs_stack' = rest \o SortedChildren(popped)
  /\ UNCHANGED <<progress, input, objs_by_name, entries_count, rendered>>

order_descrs ==
  /\ progress = "order" /\ objs_stack # <<>>
  /\ entries_count' = [entries_count EXCEPT ![get_name(popped)] = @ - 1]
  /\ IF entries_count'[get_name(popped)] # 0
     THEN objs_stack' = rest /\ UNCHANGED order
     ELSE /\ order' = Append(order, popped)
          /\ objs_stack' = rest \o SortedChildren(popped)
  /\ UNCHANGED <<progress, input, objs_by_name, rendered>>

\* From here the stack holds what is still to be rendered, the next one last.
ordered ==
  /\ progress = "order" /\ objs_stack = <<>>
  /\ progress' = "render" /\ objs_stack' = order
  /\ UNCHANGED <<input, objs_by_name, entries_count, order, rendered>>

\* A structure is rendered as itself, a field with a union as the union, and a
\* union as nothing.
Definition(o) ==
  CASE input.kind[o] = "struct" -> <<o>>
    [] input.kind[o] = "field" -> get_children(o)
    [] input.kind[o] = "union" -> <<>>

render ==
  /\ progress = "render" /\ objs_stack # <<>>
  /\ rendered' = rendered \o Definition(popped)
  /\ objs_stack' = rest
  /\ UNCHANGED <<progress, input, objs_by_name, entries_count, order>>

rendering_ends ==
  /\ progress = "render" /\ objs_stack = <<>>
  /\ progress' = "rendered"
  /\ UNCHANGED <<input, objs_stack, objs_by_name, entries_count, order, rendered>>

return ==
  /\ progress \in {"raised", "rendered"}
  /\ progress' = "idle" /\ input' = NoInput /\ objs_stack' = <<>>
  /\ objs_by_name' = <<>> /\ entries_count' = <<>> /\ order' = <<>> /\ rendered' = <<>>

Next ==
  \/ \E i \in Inputs : render_proto(i)
  \/ validate_duplicates \/ validate_raises \/ validated
  \/ count_entries \/ counted \/ order_descrs \/ ordered
  \/ render \/ rendering_ends \/ return

Spec == Init /\ [][Next]_vars

------------------------------------------------------------------------------
Objects == DOMAIN input.kind
Children == [o \in Objects |-> ToSet(get_children(o))]

\* What is given and what it uses, directly or not.
Reachable ==
  {o \in Objects :
     \A S \in SUBSET Objects :
       ToSet(input.heads) \subseteq S /\ (\A u \in S : Children[u] \subseteq S) => o \in S}

\* What the definition of a structure or union mentions.
Mentions(o) == UNION {IF input.kind[c] = "field" THEN Children[c] ELSE {c} : c \in Children[o]}

\* In the rendered header every structure and union is defined after all that its
\* definition mentions, and a structure once; when rendering ends, everything
\* reachable from what was given has a definition, whatever is used how often,
\* repeatedly or both directly and as a head (render_all.py:60-112, 132-153).
DefinedBeforeUse ==
  /\ \A i \in DOMAIN rendered :
       Mentions(rendered[i]) \subseteq {rendered[j] : j \in 1..i - 1}
  /\ \A i, j \in DOMAIN rendered :
       rendered[i] = rendered[j] /\ input.kind[rendered[i]] = "struct" => i = j
  /\ progress = "rendered" =>
       {o \in Reachable : input.kind[o] = "struct"} \subseteq ToSet(rendered)

Dependencies == INSTANCE DependencyOrder
  WITH nodes <- Reachable, uses <- Children, ordered <- order

\* order_descrs() implements DependencyOrder: its countdown of uses, over a stack
\* it fills in the order of the names, emits a description exactly when its last
\* user has been emitted, and misses none (render_all.py:92-112).
OrderSpec == Dependencies!Spec
================================================================================
