------------------------------ MODULE Dispatch -------------------------------
(***************************************************************************)
(* How a program addresses a capability (native/guest.c: app_root, path_new, *)
(* app_dispatch, app_call).  The program has one path in mind, the target,   *)
(* and reaches for it either with app.call, or name by name from app.        *)
(* Paths are sequences of characters: where a name ends is the question.     *)
(***************************************************************************)
EXTENDS Naturals, Sequences, FiniteSetsExt

CONSTANTS
  Letters, Dot,  \* characters of catalog paths
  MaxPath,       \* length of the paths considered
  Catalogs,      \* catalogs a request may carry
  Own            \* names CapabilityPath answers itself, such as "call"

Strings == UNION {[1 .. n -> Letters \cup {Dot}] : n \in 0 .. MaxPath}
Names   == {s \in Strings : s # <<>> /\ \A k \in DOMAIN s : s[k] # Dot}

DispatchAssumption ==
  /\ Dot \notin Letters /\ MaxPath \in Nat /\ Own \subseteq Names
  /\ \A c \in Catalogs : c \subseteq Strings \ {<<>>}

VARIABLES
  catalog,     \* the request's capability paths, as validate() admits them
  target,      \* what the program wants to call
  dotted,      \* it writes app.a.b rather than app.call("a.b")
  arguments,   \* it gives arguments at the end
  path,        \* @path of the object it holds
  outcome      \* what the last access came to: [is, path]

vars == <<catalog, target, dotted, arguments, path, outcome>>

Pending == [is |-> "pending", path |-> <<>>]
Outcome == [is : {"pending", "raise", "call", "unknown", "object", "own"}, path : Strings]

(* Every dot stands between two names: what Ruby can write. *)
Writable(s) == s # <<>> /\ \A k \in DOMAIN s : s[k] = Dot =>
                 /\ k > 1 /\ k < Len(s) /\ s[k - 1] # Dot /\ s[k + 1] # Dot

Init ==
  /\ catalog \in Catalogs
  /\ target \in {s \in Strings : Writable(s)}
  /\ dotted \in BOOLEAN /\ arguments \in BOOLEAN
  /\ path = <<>> /\ outcome = Pending

-----------------------------------------------------------------------------
Come(is, s) == outcome' = [is |-> is, path |-> s]

app_root ==
  /\ outcome.is = "pending" /\ catalog = {}
  /\ Come("raise", <<>>) /\ UNCHANGED path

(* The next name of the target after the object's path; a dot goes between. *)
Joined(prefix, name) == (IF prefix = <<>> THEN prefix ELSE Append(prefix, Dot)) \o name

Rest == IF path = <<>> THEN target ELSE SubSeq(target, Len(path) + 2, Len(target))
Name == SubSeq(Rest, 1, Min({k - 1 : k \in {n \in DOMAIN Rest : Rest[n] = Dot}} \cup {Len(Rest)}))
Last == Len(Name) = Len(Rest)

Listed(s) == s \in catalog

Below_AnyLonger(s) == \E c \in catalog : Len(c) > Len(s) /\ SubSeq(c, 1, Len(s)) = s
Below(s) == \E c \in catalog :
  Len(c) > Len(s) /\ SubSeq(c, 1, Len(s)) = s /\ c[Len(s) + 1] = Dot

(* One dotted access: a listed path is called, whatever its arguments; without
   arguments a path that leads on is an object; the rest is unknown.         *)
app_dispatch ==
  /\ outcome.is \in {"pending", "object"} /\ catalog # {} /\ dotted
  /\ path # target
  /\ LET s == Joined(path, Name) IN
       IF Name \in Own THEN Come("own", path) /\ UNCHANGED path
       ELSE IF Listed(s) THEN Come("call", s) /\ UNCHANGED path
       ELSE IF ~(Last /\ arguments) /\ Below(s) THEN Come("object", s) /\ path' = s
       ELSE Come("unknown", s) /\ UNCHANGED path

app_call ==
  /\ outcome.is = "pending" /\ catalog # {} /\ ~dotted
  /\ Come(IF Listed(target) THEN "call" ELSE "unknown", target)
  /\ UNCHANGED path

Over == outcome.is \notin {"pending", "object"} \/ path = target
Done == Over /\ UNCHANGED <<path, outcome>>

Next == (app_root \/ app_dispatch \/ app_call \/ Done)
        /\ UNCHANGED <<catalog, target, dotted, arguments>>
Spec == Init /\ [][Next]_vars

-----------------------------------------------------------------------------
TypeOK ==
  /\ catalog \subseteq Strings /\ target \in Strings /\ path \in Strings
  /\ outcome \in Outcome /\ (outcome.is = "object" => outcome.path = path)

(* The target cut at its dots: itself and the paths above it. *)
Above(s) == {SubSeq(s, 1, k) : k \in {n \in 1 .. Len(s) : n = Len(s) \/ s[n + 1] = Dot}}
Shortest(S) == CHOOSE s \in S : \A t \in S : Len(s) <= Len(t)

(* Dotted access, one name after the other, comes to what the whole path means:
   the shortest listed path on the way is called, and if none is, the program
   ends with an object that leads on or with an unknown capability.  No name
   boundary is missed on the way (guest.c:278-303).                          *)
DottedMeans ==
  LET listed == Above(target) \cap catalog
      names == {n \in Names : \E s \in Above(target) : s = n \/
                  (Len(s) > Len(n) /\ SubSeq(s, Len(s) - Len(n), Len(s)) = <<Dot>> \o n)}
  IN Over /\ dotted /\ catalog # {} /\ names \cap Own = {} =>
       CASE listed # {} -> outcome = [is |-> "call", path |-> Shortest(listed)]
         [] listed = {} /\ ~arguments /\ (\E c \in catalog : target \in Above(c)) -> outcome = [is |-> "object", path |-> target]
         [] OTHER -> outcome.is = "unknown"

(* "The catalog restriction and application callback remain identical to dotted
   calls" (guest.c:306): both ways call listed paths only, the exact one the
   path it names, the dotted one the path it names or one above it.          *)
CallsListed ==
  outcome.is = "call" =>
    /\ outcome.path \in catalog /\ outcome.path \in Above(target)
    /\ ~dotted => outcome.path = target

(* Whatever the way of writing it, a path means what the catalog says of it. *)
AccessMeans == TypeOK /\ DottedMeans /\ CallsListed
=============================================================================
