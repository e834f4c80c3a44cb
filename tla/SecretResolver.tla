---------------------------- MODULE SecretResolver ----------------------------
(***************************************************************************)
(* The secret resolver: the connection config of a service, a JSON value,  *)
(* with each {"value": literal} unwrapped and each                         *)
(* {"valueFrom": {"secretKeyRef": {"name": n, "key": k}}} replaced by what *)
(* key k of the Kubernetes Secret n holds.                                 *)
(*                                                                         *)
(* Each reference is a Get of its own, so secrets may be rotated, made and *)
(* deleted by their owners between two of them.  Go iterates over a map in *)
(* no order, so the references are read in any.                            *)
(***************************************************************************)
EXTENDS SequencesExt

CONSTANTS
  Configs,     \* the connection configs considered
  Names,       \* the secrets there may be
  KeysOf,      \* the keys each of them has
  MaxChanges   \* bound: how often the secrets change during the walk

ASSUME ResolverAssumption ==
  /\ DOMAIN KeysOf = Names
  /\ MaxChanges \in Nat

VARIABLES
  config,    \* the argument of Resolve
  secrets,   \* the version each secret is at now; 0 if there is none
  todo,      \* the references not read yet
  got,       \* the value read for each of the others, by its path
  pc,        \* "walk", "done" or "failed"
  result,    \* what Resolve returns, None before
  held,      \* history: the versions each secret was at during the walk
  faulty     \* history: did a Get fail although the API server has the secret?

vars == <<config, secrets, todo, got, pc, result, held, faulty>>

None == [form |-> "none"]

-----------------------------------------------------------------------------
(* JSON values: scalars, maps and lists.  The value of a secret's key is a *)
(* scalar that names the secret, the key and the version it was at.        *)

Scalar(v) == [form |-> "scalar", val |-> v]
Map(f) == [form |-> "map", fields |-> f]
List(s) == [form |-> "list", items |-> s]

Str(s) == Scalar(<<"string", s>>)
Num(n) == Scalar(<<"number", n>>)
SecretValue(n, k, version) == Scalar(<<"secret", n, k, version>>)

IsString(node) == node.form = "scalar" /\ node.val[1] = "string"

HasField(node, k) == node.form = "map" /\ k \in DOMAIN node.fields

-----------------------------------------------------------------------------
(* The two patterns, matched where the map has no other field.             *)

(* Mutant of IsLiteral: a map that has other fields, too, is unwrapped.    *)
IsLiteralAmongOthers(node) == HasField(node, "value")

IsLiteral(node) == HasField(node, "value") /\ DOMAIN node.fields = {"value"}

(* Mutant of IsReference: other fields next to valueFrom do not matter.    *)
IsReferenceAmongOthers(node) ==
  /\ HasField(node, "valueFrom")
  /\ HasField(node.fields["valueFrom"], "secretKeyRef")
  /\ LET ref == node.fields["valueFrom"].fields["secretKeyRef"]
     IN  /\ HasField(ref, "name") /\ IsString(ref.fields["name"])
         /\ HasField(ref, "key") /\ IsString(ref.fields["key"])

IsReference(node) ==
  /\ HasField(node, "valueFrom") /\ DOMAIN node.fields = {"valueFrom"}
  /\ HasField(node.fields["valueFrom"], "secretKeyRef")
  /\ LET ref == node.fields["valueFrom"].fields["secretKeyRef"]
     IN  /\ HasField(ref, "name") /\ IsString(ref.fields["name"])
         /\ HasField(ref, "key") /\ IsString(ref.fields["key"])

RefOf(node) ==
  LET ref == node.fields["valueFrom"].fields["secretKeyRef"]
  IN  [name |-> ref.fields["name"].val[2], key |-> ref.fields["key"].val[2]]

-----------------------------------------------------------------------------
(* Resolve: the walk.  A path is the sequence of the fields and of the     *)
(* list positions that lead to a part of the value.                        *)

(* The references the walk comes across, each with its path: it does not   *)
(* look into literals.                                                     *)
RECURSIVE References(_, _)
References(node, path) ==
  CASE IsLiteral(node)   -> {}
    [] IsReference(node) -> {[path |-> path, ref |-> RefOf(node)]}
    [] ~IsLiteral(node) /\ ~IsReference(node) /\ node.form = "map" ->
         UNION {References(node.fields[k], Append(path, k)) :
                  k \in DOMAIN node.fields}
    [] node.form = "list" ->
         UNION {References(node.items[i], Append(path, ToString(i))) :
                  i \in DOMAIN node.items}
    [] OTHER -> {}

(* What it makes of the value, given what the references were read as.     *)
RECURSIVE Resolved(_, _, _)
Resolved(node, path, read) ==
  CASE IsLiteral(node)   -> node.fields["value"]
    [] IsReference(node) -> read[path]
    [] ~IsLiteral(node) /\ ~IsReference(node) /\ node.form = "map" ->
         Map([k \in DOMAIN node.fields |->
                Resolved(node.fields[k], Append(path, k), read)])
    [] node.form = "list" ->
         List([i \in DOMAIN node.items |->
                 Resolved(node.items[i], Append(path, ToString(i)), read)])
    [] OTHER -> node

Init ==
  /\ config \in Configs
  /\ secrets \in [Names -> {0, 1}]
  /\ todo = References(config, <<>>)
  /\ got = <<>>
  /\ pc = "walk"
  /\ result = None
  /\ held = [n \in Names |-> {secrets[n]}]
  /\ faulty = FALSE

Found(ref) ==
  ref.name \in Names /\ secrets[ref.name] # 0 /\ ref.key \in KeysOf[ref.name]

(* Mutant of ReadSecret: the reference stays to be read.                   *)
ReadSecretAgain(r) ==
  /\ pc = "walk"
  /\ Found(r.ref)
  /\ got' = got @@ (r.path :> SecretValue(r.ref.name, r.ref.key,
                                          secrets[r.ref.name]))
  /\ UNCHANGED <<config, secrets, todo, pc, result, held, faulty>>

(* One reference is read: a Get of the secret and a look at its key.       *)
ReadSecret(r) ==
  /\ pc = "walk"
  /\ r \in todo
  /\ Found(r.ref)
  /\ got' = got @@ (r.path :> SecretValue(r.ref.name, r.ref.key,
                                          secrets[r.ref.name]))
  /\ todo' = todo \ {r}
  /\ UNCHANGED <<config, secrets, pc, result, held, faulty>>

(* A secret or a key that is not there ends the walk, and so does a Get    *)
(* that fails.                                                             *)
Abort(r) ==
  /\ pc = "walk"
  /\ r \in todo
  /\ faulty' = (faulty \/ Found(r.ref))
  /\ pc' = "failed"
  /\ UNCHANGED <<config, secrets, todo, got, result, held>>

Return ==
  /\ pc = "walk"
  /\ todo = {}
  /\ pc' = "done"
  /\ result' = Resolved(config, <<>>, got)
  /\ UNCHANGED <<config, secrets, todo, got, held, faulty>>

(* The owner of a secret makes it, rotates all of its keys, or deletes it. *)
Change(n) ==
  /\ pc = "walk"
  /\ Cardinality(UNION {{<<m, v>> : v \in held[m]} : m \in Names})
       < Cardinality(Names) + MaxChanges
  /\ \E v \in {0, secrets[n] + 1} \ held[n] :
       /\ secrets' = [secrets EXCEPT ![n] = v]
       /\ held' = [held EXCEPT ![n] = @ \cup {v}]
  /\ UNCHANGED <<config, todo, got, pc, result, faulty>>

Next ==
  \/ \E r \in todo : ReadSecret(r) \/ Abort(r)
  \/ Return
  \/ \E n \in Names : Change(n)

Spec == Init /\ [][Next]_vars

-----------------------------------------------------------------------------
(* The reference: the config taken apart into the paths of its parts.      *)

RECURSIVE Parts(_, _)
Parts(node, path) ==
  {<<path, node>>} \cup
  (IF node.form = "map"
   THEN UNION {Parts(node.fields[k], Append(path, k)) : k \in DOMAIN node.fields}
   ELSE IF node.form = "list"
   THEN UNION {Parts(node.items[i], Append(path, ToString(i))) :
                 i \in DOMAIN node.items}
   ELSE {})

(* The parts that have none of their own: scalars, empty maps and lists.   *)
Leaves(parts) ==
  {part \in parts : ~\E q \in parts : IsStrictPrefix(part[1], q[1])}

(* {"value": ...} and {"valueFrom": {"secretKeyRef": {"name", "key"}}}.    *)
Literals(parts) ==
  {part[1] : part \in
     {q \in parts : q[2].form = "map" /\ DOMAIN q[2].fields = {"value"}}}

At(parts, path, k) ==
  {part[2].val[2] : part \in
     {q \in parts : /\ q[1] = path \o <<"valueFrom", "secretKeyRef", k>>
                    /\ IsString(q[2])}}

Referrals(parts) ==
  {part[1] : part \in
     {q \in parts : /\ q[2].form = "map" /\ DOMAIN q[2].fields = {"valueFrom"}
                    /\ At(parts, q[1], "name") # {}
                    /\ At(parts, q[1], "key") # {}}}

(* A pattern inside another one is not the resolver's business.            *)
Outermost(paths, patterns) ==
  {p \in paths : \A q \in patterns : ~IsStrictPrefix(q, p)}

(* The references the comment promises to resolve, with name and key.      *)
Promised(parts) ==
  LET referrals == Referrals(parts)
  IN  UNION {{[path |-> p, name |-> n, key |-> k] :
                n \in At(parts, p, "name"), k \in At(parts, p, "key")} :
             p \in Outermost(referrals, referrals \cup Literals(parts))}

(* What the key of a reference held while the walk was under way.          *)
Values(r) ==
  IF r.name \in Names /\ r.key \in KeysOf[r.name]
  THEN {SecretValue(r.name, r.key, v) : v \in held[r.name] \ {0}}
  ELSE {}

(* The leaves of the result, each with what it may be: those of the config *)
(* outside of the patterns; those below literals, one field nearer; and    *)
(* one for each reference.                                                 *)
Expected(parts) ==
  LET literals == Outermost(Literals(parts), Literals(parts) \cup Referrals(parts))
      patterns == literals \cup {r.path : r \in Promised(parts)}
      leaves == Leaves(parts)
  IN  {<<leaf[1], {leaf[2]}>> : leaf \in
         {l \in leaves : ~\E p \in patterns : IsStrictPrefix(p, l[1])}}
      \cup
      UNION {{<<p \o SubSeq(leaf[1], Len(p) + 2, Len(leaf[1])), {leaf[2]}>> :
                leaf \in {l \in leaves : IsStrictPrefix(p, l[1])}} :
             p \in literals}
      \cup
      {<<r.path, Values(r)>> : r \in Promised(parts)}

-----------------------------------------------------------------------------
(* Properties.                                                             *)

TypeOK ==
  /\ config \in Configs
  /\ \A n \in Names : secrets[n] \in held[n] /\ held[n] \subseteq 0..MaxChanges + 1
  /\ \A r \in todo : r.path \notin DOMAIN got
  /\ pc \in {"walk", "done", "failed"}
  /\ pc = "done" <=> result # None
  /\ faulty \in BOOLEAN

(* The recursion computes what the comment on Resolve says                 *)
(* (resolver.go:41-51): everything outside the two patterns is kept, an    *)
(* outermost literal is unwrapped once and otherwise left as it is, and an *)
(* outermost reference becomes a value that its key really had while the   *)
(* walk was under way, however the secrets were changed meanwhile.         *)
ResolvesAsDocumented ==
  pc = "done" =>
    LET expected == Expected(Parts(config, <<>>))
        leaves == Leaves(Parts(result, <<>>))
    IN  /\ {leaf[1] : leaf \in leaves} = {e[1] : e \in expected}
        /\ \A leaf \in leaves :
             \E e \in expected : leaf[1] = e[1] /\ leaf[2] \in e[2]

(* A config is refused for a reason only: one of its references, not a     *)
(* look-alike in a literal or next to other fields, had no value during    *)
(* the walk, or a Get failed.                                              *)
FailsForCause ==
  pc = "failed" =>
    \/ faulty
    \/ \E r \in Promised(Parts(config, <<>>)) :
         Values(r) = {} \/ 0 \in held[r.name]

=============================================================================
