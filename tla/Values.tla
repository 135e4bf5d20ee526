------------------------------- MODULE Values --------------------------------
(***************************************************************************)
(* Values on their way out of the VM and into it: encode() and decode() of   *)
(* guest.c, Tree of guest.rs, one action per call of theirs and per return.   *)
(* In the VM a value is a graph, which may be cyclic; outside it is JSON, a   *)
(* tree: a function from paths to kinds.  A member is found by its position   *)
(* in an array and by its name in an object; a name is a number, in the order *)
(* in which serde_json keeps the names of an object.                         *)
(***************************************************************************)
EXTENDS Integers, Sequences, FiniteSetsExt

CONSTANTS
  MaxDepth,       \* 64 in guest.rs:32, guest.c:127, 186
  result_limit,
  Objects, Leaves,
  Leaf,           \* leaf -> its JSON: [bytes, special, fits]; special: quotation marks and
                  \* backslashes, which quoting doubles; fits: not beyond i64
  Key,            \* a hash's key, "k" or :k -> its text: [name, bytes, special]
  Heaps           \* what the program may have built: object -> [kind, keys, items]

ValuesAssumption ==
  /\ MaxDepth \in Nat /\ result_limit \in Nat
  /\ Objects \cap Leaves = {} /\ {"array", "hash"} \cap Leaves = {}
  /\ \A l \in Leaves : Leaf[l].bytes \in Nat /\ Leaf[l].special \in 0 .. Leaf[l].bytes
  /\ \A k \in DOMAIN Key : Key[k].name \in Nat /\ Key[k].bytes \in Nat /\ Key[k].special \in 0 .. Key[k].bytes
  /\ \A h \in Heaps : \A o \in Objects :
       /\ h[o].kind \in {"array", "hash"} /\ h[o].items \in Seq(Objects \cup Leaves)
       /\ h[o].kind = "hash" => h[o].keys \in Seq(DOMAIN Key) /\ Len(h[o].keys) = Len(h[o].items)

VARIABLES
  heap, root,     \* the VM's
  at,
  stack,          \* the calls of encode, of add or of decode that have not returned
  text,           \* the text written, and the exception raised
  json,           \* what that text says
  nodes, cursor,  \* of Tree, as add makes it and decode reads it
  value           \* what decode has made

vars == <<heap, root, at, stack, text, json, nodes, cursor, value>>

Top == Head(stack)
TooDeep(depth) == depth > MaxDepth
Put(tree, path, kind) == [p \in DOMAIN tree \cup {path} |-> IF p = path THEN kind ELSE tree[p]]

-----------------------------------------------------------------------------
(* encode(): text is the output. *)
Empty == [bytes |-> 0, special |-> 0, error |-> "none"]
Raise(out, what) == IF out.error = "none" THEN [out EXCEPT !.error = what] ELSE out

Fits(out, bytes) == bytes <= result_limit /\ out.bytes <= result_limit - bytes

append(out, bytes, special) ==
  IF out.error # "none" THEN out
  ELSE IF Fits(out, bytes)
       THEN [out EXCEPT !.bytes = @ + bytes, !.special = @ + special]
       ELSE Raise(out, "range")

quote(out, string) == append(append(append(out, 1, 1), string.bytes, string.special), 1, 1)

(* A value where encode() meets it: path holds positions, name what JSON has for
   them; lead is the length of the comma, the key and the colon before it.     *)
First == [path |-> <<>>, name |-> <<1>>, lead |-> 0, value |-> root]

Size(v) == IF v \in Leaves THEN 0 ELSE Len(heap[v].items)
Kind(v) == IF v \in Leaves THEN v ELSE heap[v].kind

Member(q, i) ==
  LET o == heap[q.value]
      comma == IF i > 1 THEN 1 ELSE 0
  IN IF o.kind = "hash"
     THEN [path |-> Append(q.path, i), name |-> Append(q.name, Key[o.keys[i]].name),
           lead |-> comma + Key[o.keys[i]].bytes + 3, value |-> o.items[i]]
     ELSE [path |-> Append(q.path, i), name |-> Append(q.name, i), lead |-> comma, value |-> o.items[i]]

Repeated(o, i) == o.kind = "hash" /\ \E j \in 1 .. i - 1 : Key[o.keys[j]].name = Key[o.keys[i]].name

Introduce(out, o, i) ==
  LET separated == IF i > 1 THEN append(out, 1, 0) ELSE out
  IN IF Repeated(o, i) THEN Raise(out, "duplicate")
     ELSE IF o.kind = "hash" THEN append(quote(separated, Key[o.keys[i]]), 1, 0)
     ELSE separated

(* encode() of a value up to its first member. *)
Begin(out, q) ==
  IF TooDeep(Len(q.path)) THEN Raise(out, "depth")
  ELSE IF q.value \in Leaves THEN append(out, Leaf[q.value].bytes, Leaf[q.value].special)
  ELSE append(out, 1, 0)

Encode(out, q, callers) ==
  /\ text' = Begin(out, q)
  /\ IF text'.error = "none"
     THEN /\ at' = "encoding" /\ json' = Put(json, q.name, Kind(q.value))
          /\ stack' = <<[place |-> q, next |-> 1]>> \o callers
     ELSE at' = "unwritten" /\ UNCHANGED <<json, stack>>

Init ==
  /\ heap \in Heaps /\ root \in Objects \cup Leaves
  /\ at = "program" /\ stack = <<>> /\ json = <<>> /\ nodes = <<>> /\ cursor = 0 /\ value = <<>>
  /\ text = Empty

(* JSON.generate, the result, and the arguments of calls and logs. *)
Generate ==
  /\ at = "program" /\ Encode(text, First, <<>>)
  /\ UNCHANGED <<heap, root, nodes, cursor, value>>

EncodeMember ==
  /\ at = "encoding" /\ Top.next <= Size(Top.place.value)
  /\ Encode(Introduce(text, heap[Top.place.value], Top.next), Member(Top.place, Top.next),
            <<[Top EXCEPT !.next = @ + 1]>> \o Tail(stack))
  /\ UNCHANGED <<heap, root, nodes, cursor, value>>

EncodeReturn ==
  /\ at = "encoding" /\ Top.next > Size(Top.place.value)
  /\ text' = IF Top.place.value \in Leaves THEN text ELSE append(text, 1, 0)
  /\ stack' = Tail(stack)
  /\ at' = IF text'.error # "none" THEN "unwritten" ELSE IF stack' = <<>> THEN "generated" ELSE "encoding"
  /\ UNCHANGED <<heap, root, json, nodes, cursor, value>>

-----------------------------------------------------------------------------
(* Tree: the nodes of a reply {"ok": true, "value": json}, in preorder, a key before
   its value.  The value is the member of name 1; depth counts the envelope.   *)
Names(path) == {p[Len(p)] : p \in {q \in DOMAIN json : Len(q) = Len(path) + 1 /\ SubSeq(q, 1, Len(path)) = path}}

Call(path) == [path |-> path, todo |-> Names(path)]
Node(path) == [kind |-> json[path], name |-> 0, length |-> Cardinality(Names(path))]
KeyNode(name) == [kind |-> "key", name |-> name, length |-> 0]
Refused(path) == TooDeep(Len(path)) \/ (json[path] \in Leaves /\ ~Leaf[json[path]].fits)

(* JSON.parse of the text, which crosses as a quoted string. *)
Quoted == append(append(append(Empty, 1, 0), text.bytes + text.special, 0), 1, 0)
Parse ==
  /\ at = "generated"
  /\ IF Quoted.error # "none"
     THEN at' = "unread" /\ text' = [text EXCEPT !.error = Quoted.error] /\ UNCHANGED <<stack, nodes>>
     ELSE /\ at' = "adding" /\ stack' = <<[path |-> <<>>, todo |-> {1}]>>
          /\ nodes' = <<[kind |-> "hash", name |-> 0, length |-> 1]>> /\ UNCHANGED text
  /\ UNCHANGED <<heap, root, json, cursor, value>>

AddMember ==
  /\ at = "adding" /\ Top.todo # {}
  /\ LET name == Min(Top.todo)
         path == Append(Top.path, name)
         hash == Top.path = <<>> \/ json[Top.path] = "hash"
     IN IF Refused(path)
        THEN at' = "unread" /\ text' = Raise(text, "protocol") /\ UNCHANGED <<stack, nodes>>
        ELSE /\ nodes' = nodes \o (IF hash THEN <<KeyNode(name)>> ELSE <<>>) \o <<Node(path)>>
             /\ stack' = <<Call(path), [Top EXCEPT !.todo = @ \ {name}]>> \o Tail(stack)
             /\ UNCHANGED <<at, text>>
  /\ UNCHANGED <<heap, root, json, cursor, value>>

(* decode() of a value up to its first member. *)
Reading(path, n) == [path |-> path, kind |-> nodes[n].kind, done |-> 0, length |-> nodes[n].length]

AddReturn ==
  /\ at = "adding" /\ Top.todo = {}
  /\ IF Len(stack) > 1
     THEN stack' = Tail(stack) /\ UNCHANGED <<at, cursor>>
     ELSE at' = "decoding" /\ stack' = <<Reading(<<>>, 1)>> /\ cursor' = 2
  /\ UNCHANGED <<heap, root, text, json, nodes, value>>

KeyFirst_Never(kind) == FALSE
KeyFirst(kind) == kind = "hash"

DecodeMember ==
  /\ at = "decoding" /\ Top.done < Top.length
  /\ LET keys == IF KeyFirst(Top.kind) THEN 1 ELSE 0
         path == Append(Top.path, IF KeyFirst(Top.kind) THEN nodes[cursor].name ELSE Top.done + 1)
     IN IF TooDeep(Len(path))
        THEN at' = "unread" /\ text' = Raise(text, "depth") /\ UNCHANGED <<stack, cursor, value>>
        ELSE /\ stack' = <<Reading(path, cursor + keys), [Top EXCEPT !.done = @ + 1]>> \o Tail(stack)
             /\ cursor' = cursor + keys + 1
             /\ value' = Put(value, path, nodes[cursor + keys].kind)
             /\ UNCHANGED <<at, text>>
  /\ UNCHANGED <<heap, root, json, nodes>>

DecodeReturn ==
  /\ at = "decoding" /\ Top.done = Top.length
  /\ stack' = Tail(stack) /\ at' = IF stack' = <<>> THEN "parsed" ELSE at
  /\ UNCHANGED <<heap, root, text, json, nodes, cursor, value>>

Over == at \in {"parsed", "unwritten", "unread"} /\ UNCHANGED vars

Next ==
  \/ Generate \/ EncodeMember \/ EncodeReturn \/ Parse \/ AddMember \/ AddReturn
  \/ DecodeMember \/ DecodeReturn \/ Over
Spec == Init /\ [][Next]_vars

-----------------------------------------------------------------------------
(* What should happen, breadth first: all places at each distance from the root. *)
Places[d \in 0 .. MaxDepth + 1] ==
  IF d = 0 THEN {First}
  ELSE UNION {{Member(q, i) : i \in 1 .. Size(q.value)} : q \in Places[d - 1]}
Deep(limit) == Places[limit + 1] # {}
Everywhere == UNION {Places[d] : d \in 0 .. MaxDepth + 1}

Duplicates == \E q \in Everywhere : q.value \in Objects /\ \E i \in 1 .. Size(q.value) : Repeated(heap[q.value], i)
Beyond == \E q \in Everywhere : q.value \in Leaves /\ ~Leaf[q.value].fits

Meaning == [name \in {q.name : q \in Everywhere} |-> Kind((CHOOSE q \in Everywhere : q.name = name).value)]
Length ==
  SumFunction([q \in Everywhere |-> q.lead + (IF q.value \in Leaves THEN Leaf[q.value].bytes ELSE 2)])

TypeOK ==
  /\ at \in {"program", "encoding", "generated", "adding", "decoding", "parsed", "unwritten", "unread"}
  /\ text.bytes \in 0 .. result_limit /\ text.special \in 0 .. text.bytes
  /\ text.error \in {"none", "range", "depth", "duplicate", "protocol"}
  /\ text.error = "none" <=> at \notin {"unwritten", "unread"}

(* A value leaves the VM exactly when it is finite, no deeper than the limit,
   without two keys of one name, and its JSON fits; and the text has the length
   of that JSON, and says it.  Cycles end by the depth limit (guest.c:161-223). *)
EncodedExactly ==
  /\ at \notin {"program", "encoding", "unwritten"} =>
       ~Deep(MaxDepth) /\ ~Duplicates /\ text.bytes = Length /\ json = Meaning
  /\ at = "unwritten" =>
       \/ Deep(MaxDepth) /\ text.error = "depth"
       \/ Duplicates /\ text.error = "duplicate"
       \/ Length > result_limit /\ text.error = "range"

(* JSON.parse(JSON.generate(v)) gives back v, keys as strings, or raises; never
   another value.  It raises where v fills the depth that the envelope needs a
   level of, a number is beyond i64, or the quoted text no longer fits
   (guest.rs:31-88, 176-183, 219; guest.c:126-159, 225-244).                 *)
RoundTrip ==
  /\ at = "parsed" => value = json /\ ~Deep(MaxDepth - 1) /\ ~Beyond
  /\ at = "unread" =>
       \/ (Deep(MaxDepth - 1) \/ Beyond) /\ text.error = "protocol"
       \/ text.bytes + text.special + 2 > result_limit /\ text.error = "range"

(* No value crosses the boundary changed, in either direction. *)
Faithful == TypeOK /\ EncodedExactly /\ RoundTrip
=============================================================================
